---- MODULE Spec2Model ----
(***************************************************************************)
(* asphalt.core.context: the hierarchical resource context.                *)
(*                                                                         *)
(* A Context owns a table of resources, a table of resource factories, a   *)
(* table of factories by context attribute, its instance attributes and a  *)
(* list of teardown callbacks, and points at its parent.  The operations   *)
(* below are the methods of class Context, translated statement by         *)
(* statement; an operation that raises leaves the state as it was at the   *)
(* raise.  Coroutines (close, request_resource) are cut at the points where*)
(* they hand control to other code.                                        *)
(***************************************************************************)
EXTENDS Naturals, Sequences, FiniteSets, TLC

(***************************************************************************)
(* Bounds of the model.                                                    *)
(***************************************************************************)
\* containers registered by add_resource and add_resource_factory, all nodes together
MaxEntries == 2
\* calls of factory callbacks, all factories and nodes together
MaxCalls == 2
\* teardown callbacks registered, all nodes together
MaxCallbacks == 3
\* `async with` blocks the tasks are in at a time, all tasks together
MaxBlocks == 2
\* teardown callbacks registered where contexts are entered and exited
MaxScopeCallbacks == 1
\* teardown callbacks registered on a node and its child, the two together
MaxFrameCallbacks == 2

(***************************************************************************)
(* The inputs.                                                             *)
(***************************************************************************)
Nodes == {"R", "C", "G", "D"}
NoNode == "-"
\* R is a root, C and D are children of R, G is a child of C
Tree == [R |-> NoNode, C |-> "R", G |-> "C", D |-> "R"]

Types == {"T1", "T2"}
Names == {"n", "m"}
\* a name resource_name_re does not match
BadName == "n-m"
Keys == Types \X Names
Attrs == {"a"}
Tasks == {"t1", "t2"}
\* context_attr=None
NoAttr == ""

\* a resource value is a record; None is Python's None
None == [kind |-> "None"]
Plain(i) == [kind |-> "plain", id |-> i]
Values == {Plain(1), Plain(2)}
\* type(value)
TypeOf(v) == "T1"
\* the object the i-th call of factory callback f with context ctx returns
Made(f, ctx, i) == [kind |-> "made", f |-> f, ctx |-> ctx, seq |-> i]
\* a key absent from a dict
NoEntry == [absent |-> TRUE]
\* close(exception): None, or the exception that ended the context
Exceptions == {"None", "Exc"}
\* a teardown callback called with no argument
NoArg == "-"
\* how a teardown callback, with the awaitable it returned, ends: it returns, it
\* raises an Exception, or it raises a BaseException that is no Exception (the
\* CancelledError of a cancelled awaitable, KeyboardInterrupt)
Outcomes == {"returns", "raises", "cancelled"}
\* the exception callback id raises
Err(id) == <<"error of", id>>
\* Context._teardown_callbacks after `del self._teardown_callbacks`
Deleted == <<[deleted |-> TRUE]>>

VARIABLES
    parent,                              \* Context._parent
    closed,                              \* Context._closed
    resources,                           \* Context._resources
    resource_factories,                  \* Context._resource_factories
    resource_factories_by_context_attr,  \* Context._resource_factories_by_context_attr
    attrs,                               \* the instance attributes set by setattr
    teardown_callbacks,                  \* Context._teardown_callbacks
    tasks,                               \* the coroutine each task is suspended in
    invocations,                         \* history: the calls of each factory callback
    tdlog,                               \* history: the calls of each node's teardown callbacks
    current_context,                     \* _current_context, as each task sees it
    reset_token,                         \* Context._reset_token, with Context._host_task
    aexit,                               \* the __aexit__ each task is in, below its close
    warnings,                            \* history: the warnings __aexit__ has issued
    entered                              \* history: the `async with` blocks each task is in

\* the state of entering and exiting
scope_vars == <<current_context, reset_token, aexit, warnings, entered>>

vars == <<parent, closed, resources, resource_factories,
          resource_factories_by_context_attr, attrs, teardown_callbacks,
          tasks, invocations, tdlog, scope_vars>>

(***************************************************************************)
(* ResourceContainer.__init__                                              *)
(***************************************************************************)
ResourceContainer(value_or_factory, types, name, context_attr, is_factory) ==
    [value_or_factory |-> value_or_factory, types |-> types, name |-> name,
     context_attr |-> context_attr, is_factory |-> is_factory]

\* the callback passed to one add_resource_factory call: every call passes its own
Callback(n, types, name) == [kind |-> "callback", owner |-> n, types |-> types, name |-> name]

\* the calls of callback f with context ctx so far, in order: TRUE returned, FALSE raised
calls(f, ctx) == IF <<f, ctx>> \in DOMAIN invocations THEN invocations[<<f, ctx>>] ELSE << >>

RECURSIVE SumLen(_, _)
SumLen(f, S) ==
    IF S = {} THEN 0
    ELSE LET x == CHOOSE x \in S : TRUE IN Len(f[x]) + SumLen(f, S \ {x})
\* the calls of factory callbacks so far, all together
NumCalls == SumLen(invocations, DOMAIN invocations)

Min(S) == CHOOSE i \in S : \A j \in S : i <= j

\* a task that is in no coroutine of a context
Idle == [pc |-> "idle"]

\* a context that was never entered has no _reset_token
NoToken == [absent |-> TRUE]

(***************************************************************************)
(* Context.__init__                                                        *)
(***************************************************************************)
Init ==
    /\ parent = Tree
    /\ closed = [n \in Nodes |-> FALSE]
    /\ resources = [n \in Nodes |-> [k \in Keys |-> NoEntry]]
    /\ resource_factories = [n \in Nodes |-> [k \in Keys |-> NoEntry]]
    /\ resource_factories_by_context_attr = [n \in Nodes |-> [a \in Attrs |-> NoEntry]]
    /\ attrs = [n \in Nodes |-> [a \in Attrs |-> None]]
    /\ teardown_callbacks = [n \in Nodes |-> << >>]
    /\ tasks = [t \in Tasks |-> Idle]
    /\ invocations = << >>
    /\ tdlog = [n \in Nodes |-> << >>]
    /\ current_context = [t \in Tasks |-> NoNode]
    /\ reset_token = [n \in Nodes |-> NoToken]
    /\ aexit = [t \in Tasks |-> Idle]
    /\ warnings = {}
    /\ entered = [t \in Tasks |-> << >>]

(***************************************************************************)
(* Context.context_chain: this context, its parent and so on               *)
(***************************************************************************)
RECURSIVE context_chain(_)
context_chain(n) == IF n = NoNode THEN << >> ELSE <<n>> \o context_chain(parent[n])

\* a faulty variant: a check that never raises
check_closed_never(n) == FALSE

\* a faulty variant: a node counts as closed once a node of its chain is closed
check_closed_chain(n) == \E i \in 1..Len(context_chain(n)) : closed[context_chain(n)[i]]

\* Context._check_closed: TRUE when it raises
check_closed(n) == closed[n]

(***************************************************************************)
(* Signal.dispatch and wait_event of asphalt.core.event: the event reaches *)
(* every listener connected to the signal of node n at the time of the     *)
(* dispatch; a task suspended in wait_event wakes up when the filter of    *)
(* request_resource accepts the event.                                     *)
(***************************************************************************)
Listening(t, n, types, name) ==
    /\ tasks[t].pc = "wait_event"
    /\ n \in tasks[t].signals
    /\ tasks[t].key[2] = name
    /\ tasks[t].key[1] \in types

dispatch(n, types, name) ==
    [t \in Tasks |->
        IF Listening(t, n, types, name)
        THEN [tasks[t] EXCEPT !.pc = "woken"]
        ELSE tasks[t]]

(***************************************************************************)
(* ResourceContainer.generate_value: call the factory with ctx; when it    *)
(* returns, store the value under every type of the factory in ctx and set *)
(* the context attribute.  returns = FALSE: the callback raises.           *)
(***************************************************************************)
\* a faulty variant: the value is made and not stored
generate_value_unstored(c, ctx, returns) ==
    /\ invocations' = (<<c.value_or_factory, ctx>> :>
                          Append(calls(c.value_or_factory, ctx), returns)) @@ invocations
    /\ UNCHANGED <<resources, attrs>>

\* a faulty variant: the value is stored in the node that declared the factory
generate_value_into_owner(c, ctx, returns) ==
    LET f == c.value_or_factory
        value == Made(f, ctx, Len(calls(f, ctx)) + 1)
        container == ResourceContainer(value, c.types, c.name, c.context_attr, FALSE)
    IN  /\ invocations' = (<<f, ctx>> :> Append(calls(f, ctx), returns)) @@ invocations
        /\ IF returns
           THEN /\ resources' = [resources EXCEPT ![f.owner] =
                        [k \in Keys |-> IF k[1] \in c.types /\ k[2] = c.name
                                        THEN container ELSE @[k]]]
                /\ attrs' = IF c.context_attr # NoAttr
                            THEN [attrs EXCEPT ![f.owner][c.context_attr] = value]
                            ELSE attrs
           ELSE UNCHANGED <<resources, attrs>>

\* a faulty variant: a call that raised is remembered as an entry without a value
generate_value_keeps_failure(c, ctx, returns) ==
    LET f == c.value_or_factory
        value == IF returns THEN Made(f, ctx, Len(calls(f, ctx)) + 1) ELSE None
        container == ResourceContainer(value, c.types, c.name, c.context_attr, FALSE)
    IN  /\ invocations' = (<<f, ctx>> :> Append(calls(f, ctx), returns)) @@ invocations
        /\ resources' = [resources EXCEPT ![ctx] =
                [k \in Keys |-> IF k[1] \in c.types /\ k[2] = c.name
                                THEN container ELSE @[k]]]
        /\ attrs' = IF c.context_attr # NoAttr /\ returns
                    THEN [attrs EXCEPT ![ctx][c.context_attr] = value]
                    ELSE attrs

\* ResourceContainer.generate_value
generate_value(c, ctx, returns) ==
    LET f == c.value_or_factory
        value == Made(f, ctx, Len(calls(f, ctx)) + 1)
        container == ResourceContainer(value, c.types, c.name, c.context_attr, FALSE)
    IN  /\ invocations' = (<<f, ctx>> :> Append(calls(f, ctx), returns)) @@ invocations
        /\ IF returns
           THEN /\ resources' = [resources EXCEPT ![ctx] =
                        [k \in Keys |-> IF k[1] \in c.types /\ k[2] = c.name
                                        THEN container ELSE @[k]]]
                /\ attrs' = IF c.context_attr # NoAttr
                            THEN [attrs EXCEPT ![ctx][c.context_attr] = value]
                            ELSE attrs
           ELSE UNCHANGED <<resources, attrs>>

(***************************************************************************)
(* Context.add_resource                                                    *)
(***************************************************************************)
\* types=() registers the value under type(value)
resource_types(value, types) == IF types # {} THEN types ELSE {TypeOf(value)}

\* a faulty variant: the checks without the one for a held key
add_resource_check_no_conflict(n, value, name, context_attr, types) ==
    IF check_closed(n) THEN "RuntimeError"
    ELSE IF value = None THEN "ValueError"
    ELSE IF name \notin Names THEN "ValueError"
    ELSE "ok"

\* the checks of add_resource in the order of the code: what it raises, or "ok"
add_resource_check(n, value, name, context_attr, types) ==
    IF check_closed(n) THEN "RuntimeError"
    ELSE IF value = None THEN "ValueError"
    ELSE IF name \notin Names THEN "ValueError"
    ELSE IF context_attr # NoAttr /\ attrs[n][context_attr] # None THEN "ResourceConflict"
    ELSE IF \E t \in resource_types(value, types) : resources[n][<<t, name>>] # NoEntry
         THEN "ResourceConflict"
    ELSE "ok"

\* a faulty variant: each type is checked and stored in turn, so a conflict on a
\* later type leaves the entries of the earlier ones behind
add_resource_type_by_type(n, value, name, context_attr, types) ==
    LET ts == resource_types(value, types)
        resource == ResourceContainer(value, ts, name, context_attr, FALSE)
        free == {t \in ts : resources[n][<<t, name>>] = NoEntry}
    IN  IF add_resource_check(n, value, name, context_attr, types) = "ok"
        THEN /\ resources' = [resources EXCEPT ![n] =
                     [k \in Keys |-> IF k[1] \in ts /\ k[2] = name THEN resource ELSE @[k]]]
             /\ attrs' = IF context_attr # NoAttr
                         THEN [attrs EXCEPT ![n][context_attr] = value]
                         ELSE attrs
             /\ tasks' = dispatch(n, ts, name)
             /\ UNCHANGED <<scope_vars, parent, closed, resource_factories,
                            resource_factories_by_context_attr, teardown_callbacks,
                            invocations, tdlog>>
        ELSE IF add_resource_check_no_conflict(n, value, name, context_attr, types) = "ok"
                /\ (context_attr = NoAttr \/ attrs[n][context_attr] = None)
        THEN /\ resources' = [resources EXCEPT ![n] =
                     [k \in Keys |-> IF k[1] \in free /\ k[2] = name THEN resource ELSE @[k]]]
             /\ UNCHANGED <<scope_vars, parent, closed, attrs, tasks, resource_factories,
                            resource_factories_by_context_attr, teardown_callbacks,
                            invocations, tdlog>>
        ELSE UNCHANGED vars

add_resource(n, value, name, context_attr, types) ==
    IF add_resource_check(n, value, name, context_attr, types) = "ok"
    THEN LET ts == resource_types(value, types)
             resource == ResourceContainer(value, ts, name, context_attr, FALSE)
         IN  /\ resources' = [resources EXCEPT ![n] =
                     [k \in Keys |-> IF k[1] \in ts /\ k[2] = name THEN resource ELSE @[k]]]
             /\ attrs' = IF context_attr # NoAttr
                         THEN [attrs EXCEPT ![n][context_attr] = value]
                         ELSE attrs
             /\ tasks' = dispatch(n, ts, name)
             /\ UNCHANGED <<scope_vars, parent, closed, resource_factories,
                            resource_factories_by_context_attr, teardown_callbacks,
                            invocations, tdlog>>
    ELSE UNCHANGED vars

(***************************************************************************)
(* Context.add_resource_factory                                            *)
(***************************************************************************)
add_resource_factory_check(n, types, name, context_attr) ==
    IF check_closed(n) THEN "RuntimeError"
    ELSE IF name \notin Names THEN "ValueError"
    ELSE IF types = {} THEN "ValueError"
    ELSE IF context_attr # NoAttr /\ resource_factories_by_context_attr[n][context_attr] # NoEntry
         THEN "ResourceConflict"
    ELSE IF \E t \in types : resource_factories[n][<<t, name>>] # NoEntry
         THEN "ResourceConflict"
    ELSE "ok"

\* a faulty variant: a registration that dispatches no event
add_resource_factory_silent(n, types, name, context_attr) ==
    IF add_resource_factory_check(n, types, name, context_attr) = "ok"
    THEN LET resource == ResourceContainer(Callback(n, types, name), types, name,
                                           context_attr, TRUE)
         IN  /\ resource_factories' = [resource_factories EXCEPT ![n] =
                     [k \in Keys |-> IF k[1] \in types /\ k[2] = name THEN resource ELSE @[k]]]
             /\ resource_factories_by_context_attr' =
                     IF context_attr # NoAttr
                     THEN [resource_factories_by_context_attr EXCEPT
                               ![n][context_attr] = resource]
                     ELSE resource_factories_by_context_attr
             /\ UNCHANGED <<scope_vars, parent, closed, resources, attrs, teardown_callbacks,
                            tasks, invocations, tdlog>>
    ELSE UNCHANGED vars

\* Context.add_resource_factory: the registration and its dispatch
add_resource_factory(n, types, name, context_attr) ==
    IF add_resource_factory_check(n, types, name, context_attr) = "ok"
    THEN LET resource == ResourceContainer(Callback(n, types, name), types, name,
                                           context_attr, TRUE)
         IN  /\ resource_factories' = [resource_factories EXCEPT ![n] =
                     [k \in Keys |-> IF k[1] \in types /\ k[2] = name THEN resource ELSE @[k]]]
             /\ resource_factories_by_context_attr' =
                     IF context_attr # NoAttr
                     THEN [resource_factories_by_context_attr EXCEPT
                               ![n][context_attr] = resource]
                     ELSE resource_factories_by_context_attr
             /\ tasks' = dispatch(n, types, name)
             /\ UNCHANGED <<scope_vars, parent, closed, resources, attrs, teardown_callbacks,
                            invocations, tdlog>>
    ELSE UNCHANGED vars

(***************************************************************************)
(* Context.get_resource                                                    *)
(***************************************************************************)
\* next(ctx._resource_factories[key] for ctx in chain if key in ctx._resource_factories)
factory_lookup(n, key) ==
    LET chain == context_chain(n)
        hits == {i \in 1..Len(chain) : resource_factories[chain[i]][key] # NoEntry}
    IN  IF hits = {} THEN NoEntry ELSE resource_factories[chain[Min(hits)]][key]

\* a faulty variant: a lookup in every node, the chain or not
resource_lookup_everywhere(n, key) ==
    LET hits == {m \in Nodes : resources[m][key] # NoEntry}
    IN  IF hits = {} THEN None
        ELSE resources[CHOOSE m \in hits : TRUE][key].value_or_factory

\* next(ctx._resources[key].value_or_factory for ctx in chain if key in ctx._resources)
resource_lookup(n, key) ==
    LET chain == context_chain(n)
        hits == {i \in 1..Len(chain) : resources[chain[i]][key] # NoEntry}
    IN  IF hits = {} THEN None ELSE resources[chain[Min(hits)]][key].value_or_factory

\* a faulty variant: published values of the chain before its factories
get_resource_values_first(n, key) ==
    IF check_closed(n) THEN [raises |-> "RuntimeError"]
    ELSE IF resources[n][key] # NoEntry
         THEN [returns |-> resources[n][key].value_or_factory]
    ELSE IF resource_lookup(n, key) # None
         THEN [returns |-> resource_lookup(n, key)]
    ELSE IF factory_lookup(n, key) # NoEntry
         THEN [generates |-> factory_lookup(n, key)]
    ELSE [returns |-> None]

\* the branch get_resource takes: what it raises, the value it returns without
\* calling a factory, or the factory it hands to generate_value
get_resource_branch(n, key) ==
    IF check_closed(n) THEN [raises |-> "RuntimeError"]
    ELSE IF resources[n][key] # NoEntry
         THEN [returns |-> resources[n][key].value_or_factory]
    ELSE IF factory_lookup(n, key) # NoEntry
         THEN [generates |-> factory_lookup(n, key)]
    ELSE [returns |-> resource_lookup(n, key)]

\* the state change of get_resource: that of generate_value, if it is called
get_resource(n, key, factory_returns) ==
    LET branch == get_resource_branch(n, key)
    IN  IF "generates" \in DOMAIN branch
        THEN /\ NumCalls < MaxCalls
             /\ generate_value(branch.generates, n, factory_returns)
        ELSE factory_returns /\ UNCHANGED <<resources, attrs, invocations>>

\* what get_resource returns or raises, read after the call
get_resource_result(n, key, branch, factory_returns) ==
    IF "generates" \in DOMAIN branch
    THEN IF factory_returns
         THEN [returns |-> Made(branch.generates.value_or_factory, n,
                                Len(calls(branch.generates.value_or_factory, n)) + 1)]
         ELSE [raises |-> "FactoryError"]
    ELSE branch

(***************************************************************************)
(* Context.__getattr__: called when the instance has no attribute `name`   *)
(***************************************************************************)
getattr_factory(n, name) ==
    LET chain == context_chain(n)
        hits == {i \in 1..Len(chain) :
                    resource_factories_by_context_attr[chain[i]][name] # NoEntry}
    IN  IF hits = {} THEN NoEntry
        ELSE resource_factories_by_context_attr[chain[Min(hits)]][name]

getattr(n, name, factory_returns) ==
    IF attrs[n][name] = None /\ getattr_factory(n, name) # NoEntry
    THEN /\ NumCalls < MaxCalls
         /\ generate_value(getattr_factory(n, name), n, factory_returns)
    ELSE factory_returns /\ UNCHANGED <<resources, attrs, invocations>>

(***************************************************************************)
(* The operations of the registry, with their inputs                       *)
(***************************************************************************)
\* the containers registered so far, all nodes together
Entries ==
    {<<n, resources[n][k]>> : n \in Nodes, k \in Keys}
    \cup {<<n, resource_factories[n][k]>> : n \in Nodes, k \in Keys}
NumEntries ==
    Cardinality({e \in Entries : /\ e[2] # NoEntry
                                 /\ \/ e[2].is_factory
                                    \/ e[2].value_or_factory.kind \in {"plain", "awaitable"}})

\* the (name, types) pairs add_resource and add_resource_factory are called with;
\* types = {} is the default types=(), BadName a malformed name
ResourceNameTypes == {<<"n", {"T1"}>>, <<"n", {"T1", "T2"}>>, <<"m", {"T1"}>>}
FactoryNameTypes == {<<"n", {"T1"}>>, <<"n", {"T1", "T2"}>>}
BadNameTypes == {<<"n", {}>>, <<BadName, {"T1"}>>}
\* (name, types, context_attr) of the factories
FactoryInputs ==
    {<<nt[1], nt[2], NoAttr>> : nt \in FactoryNameTypes \cup BadNameTypes}
    \cup {<<"n", {"T1"}, "a">>}

\* the nodes a factory with a context attribute is registered on
AttrNodes == {"R"}

AddResource ==
    /\ NumEntries < MaxEntries
    /\ \E n \in Nodes, value \in Values \cup {None},
          nt \in ResourceNameTypes \cup BadNameTypes :
            add_resource(n, value, nt[1], NoAttr, nt[2])

AddResourceFactory ==
    /\ NumEntries < MaxEntries
    /\ \E n \in Nodes, in \in FactoryInputs :
            /\ in[3] # NoAttr => n \in AttrNodes
            /\ add_resource_factory(n, in[2], in[1], in[3])

GetResource ==
    \E n \in Nodes, key \in Keys, factory_returns \in BOOLEAN :
        /\ get_resource(n, key, factory_returns)
        /\ UNCHANGED <<scope_vars, parent, closed, resource_factories,
                       resource_factories_by_context_attr, teardown_callbacks,
                       tasks, tdlog>>

GetAttr ==
    \E n \in Nodes, name \in Attrs, factory_returns \in BOOLEAN :
        /\ getattr(n, name, factory_returns)
        /\ UNCHANGED <<scope_vars, parent, closed, resource_factories,
                       resource_factories_by_context_attr, teardown_callbacks,
                       tasks, tdlog>>

Next ==
    \/ AddResource
    \/ AddResourceFactory
    \/ GetResource
    \/ GetAttr

Spec == Init /\ [][Next]_vars

(***************************************************************************)
(* Context.add_teardown_callback                                           *)
(***************************************************************************)
add_teardown_callback_check(n) ==
    IF check_closed(n) THEN "RuntimeError"
    ELSE IF teardown_callbacks[n] = Deleted THEN "AttributeError"
    ELSE "ok"

\* every call passes a callback of its own: its id is its place in the list
add_teardown_callback(n, pass_exception) ==
    IF add_teardown_callback_check(n) = "ok"
    THEN /\ teardown_callbacks' = [teardown_callbacks EXCEPT ![n] =
                Append(@, [id |-> Len(@) + 1, pass_exception |-> pass_exception])]
         /\ UNCHANGED <<scope_vars, parent, closed, resources, resource_factories,
                        resource_factories_by_context_attr, attrs, tasks,
                        invocations, tdlog>>
    ELSE UNCHANGED vars

(***************************************************************************)
(* Context.close.  The coroutine is cut where it calls a teardown callback:*)
(* the callback, and the awaitable it returns, run other code until they   *)
(* end with one of Outcomes.                                               *)
(***************************************************************************)
\* what a task that left a coroutine keeps: what the call returned or raised
Done(op, n, result) == [pc |-> "done", op |-> op, node |-> n, result |-> result]

\* a faulty variant: the callbacks in the order of their registration
teardown_order_forward(n) ==
    IF teardown_callbacks[n] = Deleted THEN << >> ELSE teardown_callbacks[n]

\* reversed(self._teardown_callbacks)
teardown_order(n) ==
    IF teardown_callbacks[n] = Deleted THEN << >>
    ELSE [i \in 1..Len(teardown_callbacks[n]) |->
              teardown_callbacks[n][Len(teardown_callbacks[n]) - i + 1]]

\* a faulty variant: a loop that gives up at the first callback that raised
close_loop_stops_at_error(t, n, exception, i, exceptions, log) ==
    IF i <= Len(teardown_order(n)) /\ exceptions = << >>
    THEN LET cb == teardown_order(n)[i]
         IN  /\ tasks' = [tasks EXCEPT ![t] =
                    [pc |-> "callback", node |-> n, exception |-> exception,
                     i |-> i, exceptions |-> exceptions]]
             /\ tdlog' = [tdlog EXCEPT ![n] =
                    Append(log, <<"call", cb.id,
                                  IF cb.pass_exception THEN exception ELSE NoArg>>)]
             /\ UNCHANGED teardown_callbacks
    ELSE /\ teardown_callbacks' = [teardown_callbacks EXCEPT ![n] = Deleted]
         /\ tdlog' = [tdlog EXCEPT ![n] = log]
         /\ tasks' = [tasks EXCEPT ![t] =
                Done("close", n,
                     IF exceptions # << >>
                     THEN [raises |-> "TeardownError", exceptions |-> exceptions]
                     ELSE [returns |-> None])]

\* the loop of close from its i-th pass on, up to the call of the i-th callback or,
\* past the last one, to the end of close; log is the node's history so far
close_loop(t, n, exception, i, exceptions, log) ==
    IF i <= Len(teardown_order(n))
    THEN LET cb == teardown_order(n)[i]
         IN  /\ tasks' = [tasks EXCEPT ![t] =
                    [pc |-> "callback", node |-> n, exception |-> exception,
                     i |-> i, exceptions |-> exceptions]]
             /\ tdlog' = [tdlog EXCEPT ![n] =
                    Append(log, <<"call", cb.id,
                                  IF cb.pass_exception THEN exception ELSE NoArg>>)]
             /\ UNCHANGED teardown_callbacks
    ELSE /\ teardown_callbacks' = [teardown_callbacks EXCEPT ![n] = Deleted]
         /\ tdlog' = [tdlog EXCEPT ![n] = log]
         /\ tasks' = [tasks EXCEPT ![t] =
                Done("close", n,
                     IF exceptions # << >>
                     THEN [raises |-> "TeardownError", exceptions |-> exceptions]
                     ELSE [returns |-> None])]

\* a faulty variant: close rejected only once an earlier close has come to its end
close_until_finished(t, n, exception) ==
    IF teardown_callbacks[n] = Deleted
    THEN /\ tasks' = [tasks EXCEPT ![t] = Done("close", n, [raises |-> "RuntimeError"])]
         /\ UNCHANGED <<closed, teardown_callbacks, tdlog>>
    ELSE /\ closed' = [closed EXCEPT ![n] = TRUE]
         /\ close_loop(t, n, exception, 1, << >>, tdlog[n])

\* task t calls close(exception) on n: up to the call of the first callback
close(t, n, exception) ==
    IF check_closed(n)
    THEN /\ tasks' = [tasks EXCEPT ![t] = Done("close", n, [raises |-> "RuntimeError"])]
         /\ UNCHANGED <<closed, teardown_callbacks, tdlog>>
    ELSE /\ closed' = [closed EXCEPT ![n] = TRUE]
         /\ close_loop(t, n, exception, 1, << >>, tdlog[n])

\* a faulty variant: `except BaseException`, a cancellation is collected as well
callback_ends_catches_all(t, outcome) ==
    LET fr == tasks[t]
        n == fr.node
        cb == teardown_order(n)[fr.i]
        log == Append(tdlog[n], <<"end", cb.id, outcome>>)
    IN  /\ UNCHANGED closed
        /\ IF outcome = "returns"
           THEN close_loop(t, n, fr.exception, fr.i + 1, fr.exceptions, log)
           ELSE close_loop(t, n, fr.exception, fr.i + 1,
                           Append(fr.exceptions, Err(cb.id)), log)

\* the callback task t waits for ends: through `except Exception` and the next pass
callback_ends(t, outcome) ==
    LET fr == tasks[t]
        n == fr.node
        cb == teardown_order(n)[fr.i]
        log == Append(tdlog[n], <<"end", cb.id, outcome>>)
    IN  /\ UNCHANGED closed
        /\ CASE outcome = "returns" ->
                    close_loop(t, n, fr.exception, fr.i + 1, fr.exceptions, log)
             [] outcome = "raises" ->
                    close_loop(t, n, fr.exception, fr.i + 1,
                               Append(fr.exceptions, Err(cb.id)), log)
             [] outcome = "cancelled" ->
                    /\ tasks' = [tasks EXCEPT ![t] =
                           Done("close", n, [raises |-> "CancelledError"])]
                    /\ tdlog' = [tdlog EXCEPT ![n] = log]
                    /\ UNCHANGED teardown_callbacks

(***************************************************************************)
(* The operations of teardown, with their inputs                           *)
(***************************************************************************)
\* the nodes the teardown operations are called on
TeardownNodes == {"C"}

\* the teardown callbacks registered on n: those of its list or, once close has
\* deleted the list, those close called
Registered(n) ==
    IF teardown_callbacks[n] = Deleted
    THEN Cardinality({i \in 1..Len(tdlog[n]) : tdlog[n][i][1] = "call"})
    ELSE Len(teardown_callbacks[n])

RECURSIVE SumCallbacks(_)
SumCallbacks(S) ==
    IF S = {} THEN 0
    ELSE LET n == CHOOSE n \in S : TRUE
         IN  Registered(n) + SumCallbacks(S \ {n})
\* the teardown callbacks registered, all nodes together
NumCallbacks == SumCallbacks(Nodes)

\* a task that can make a call
Free(t) == tasks[t].pc \in {"idle", "done"}

AddTeardownCallback ==
    /\ NumCallbacks < MaxCallbacks
    /\ \E n \in TeardownNodes, pass_exception \in BOOLEAN :
            add_teardown_callback(n, pass_exception)

Close ==
    \E t \in Tasks, n \in TeardownNodes, exception \in Exceptions :
        /\ Free(t)
        /\ close(t, n, exception)
        /\ UNCHANGED <<scope_vars, parent, resources, resource_factories,
                       resource_factories_by_context_attr, attrs, invocations>>

CallbackEnds ==
    \E t \in Tasks, outcome \in Outcomes :
        /\ tasks[t].pc = "callback"
        /\ callback_ends(t, outcome)
        /\ UNCHANGED <<scope_vars, parent, resources, resource_factories,
                       resource_factories_by_context_attr, attrs, invocations>>

\* the registry operations a closed node rejects, called on the teardown nodes
AddResourceOnTeardownNode ==
    /\ NumEntries < MaxEntries
    /\ \E n \in TeardownNodes : add_resource(n, Plain(1), "n", NoAttr, {"T1"})

AddResourceFactoryOnTeardownNode ==
    /\ NumEntries < MaxEntries
    /\ \E n \in TeardownNodes : add_resource_factory(n, {"T1"}, "n", NoAttr)

NextTeardown ==
    \/ AddTeardownCallback
    \/ Close
    \/ CallbackEnds
    \/ AddResourceOnTeardownNode
    \/ AddResourceFactoryOnTeardownNode

SpecTeardown == Init /\ [][NextTeardown]_vars

(***************************************************************************)
(* Context.require_resource and Context.request_resource.  The coroutine   *)
(* is cut at `await wait_event(...)`: wait_event connects to the signals   *)
(* before it suspends, so no other code runs between the lookup and the    *)
(* subscription.                                                           *)
(***************************************************************************)
\* what a task that left request_resource keeps; waited: it was suspended
DoneRequest(n, key, result, waited) ==
    [pc |-> "done", op |-> "request_resource", node |-> n, key |-> key,
     result |-> result, waited |-> waited]

require_resource_result(n, key, branch, factory_returns) ==
    IF get_resource_result(n, key, branch, factory_returns) = [returns |-> None]
    THEN [raises |-> "ResourceNotFound"]
    ELSE get_resource_result(n, key, branch, factory_returns)

\* a faulty variant: a wait on the signal of the node alone
request_resource_own_signal(t, n, key, factory_returns) ==
    LET value == get_resource_result(n, key, get_resource_branch(n, key), factory_returns)
    IN  /\ get_resource(n, key, factory_returns)
        /\ tasks' = [tasks EXCEPT ![t] =
               IF value = [returns |-> None]
               THEN [pc |-> "wait_event", op |-> "request_resource", node |-> n,
                     key |-> key, signals |-> {n}]
               ELSE DoneRequest(n, key, value, FALSE)]

\* task t calls request_resource(key) on n: up to its return or its suspension
request_resource(t, n, key, factory_returns) ==
    LET value == get_resource_result(n, key, get_resource_branch(n, key), factory_returns)
    IN  /\ get_resource(n, key, factory_returns)
        /\ tasks' = [tasks EXCEPT ![t] =
               IF value = [returns |-> None]
               THEN [pc |-> "wait_event", op |-> "request_resource", node |-> n,
                     key |-> key,
                     signals |-> {context_chain(n)[i] : i \in 1..Len(context_chain(n))}]
               ELSE DoneRequest(n, key, value, FALSE)]

\* a faulty variant: the woken task looks in the table of the node alone
request_resource_resume_own_node(t, factory_returns) ==
    LET n == tasks[t].node
        key == tasks[t].key
    IN  /\ factory_returns
        /\ UNCHANGED <<resources, attrs, invocations>>
        /\ tasks' = [tasks EXCEPT ![t] =
               DoneRequest(n, key,
                           IF check_closed(n) THEN [raises |-> "RuntimeError"]
                           ELSE IF resources[n][key] # NoEntry
                           THEN [returns |-> resources[n][key].value_or_factory]
                           ELSE [raises |-> "ResourceNotFound"],
                           TRUE)]

\* wait_event has returned in task t: `return self.require_resource(type, name)`
request_resource_resume(t, factory_returns) ==
    LET n == tasks[t].node
        key == tasks[t].key
    IN  /\ get_resource(n, key, factory_returns)
        /\ tasks' = [tasks EXCEPT ![t] =
               DoneRequest(n, key,
                           require_resource_result(n, key, get_resource_branch(n, key),
                                                   factory_returns),
                           TRUE)]

(***************************************************************************)
(* The operations of waiting, with their inputs                            *)
(***************************************************************************)
\* the nodes request_resource is called on, and the keys it is called with
WaitNodes == {"G", "D"}
WaitKeys == {<<"T1", "n">>, <<"T2", "n">>}

\* the tasks inside a call
Busy == {t \in Tasks : ~Free(t)}

\* every task makes one call, and only if the factory calls left allow every
\* suspended task, and this one, to finish
RequestResource ==
    \E t \in Tasks, n \in WaitNodes, key \in WaitKeys, factory_returns \in BOOLEAN :
        /\ tasks[t] = Idle
        /\ NumCalls + Cardinality(Busy) < MaxCalls
        /\ request_resource(t, n, key, factory_returns)
        /\ UNCHANGED <<scope_vars, parent, closed, resource_factories,
                       resource_factories_by_context_attr, teardown_callbacks, tdlog>>

Resume(t) ==
    \E factory_returns \in BOOLEAN :
        /\ tasks[t].pc = "woken"
        /\ request_resource_resume(t, factory_returns)
        /\ UNCHANGED <<scope_vars, parent, closed, resource_factories,
                       resource_factories_by_context_attr, teardown_callbacks, tdlog>>

ResumeSome == \E t \in Tasks : Resume(t)

\* the publishing operations, called on the nodes above the waiting ones
PublishNodes == {"R", "C"}
PublishTypes == {{"T1"}, {"T1", "T2"}}

AddResourceOnPublishNode ==
    /\ NumEntries < MaxEntries
    /\ \E n \in PublishNodes, value \in Values, types \in PublishTypes :
            add_resource(n, value, "n", NoAttr, types)

AddResourceFactoryOnPublishNode ==
    /\ NumEntries < MaxEntries
    /\ \E n \in PublishNodes, types \in PublishTypes :
            add_resource_factory(n, types, "n", NoAttr)

NextWait ==
    \/ RequestResource
    \/ ResumeSome
    \/ AddResourceOnPublishNode
    \/ AddResourceFactoryOnPublishNode

\* the event loop runs every task that can run
SpecWait == Init /\ [][NextWait]_vars /\ \A t \in Tasks : WF_vars(Resume(t))

(***************************************************************************)
(* Context.__aenter__ and Context.__aexit__.  _current_context is a        *)
(* ContextVar: every task reads and sets its own value, and a token can be *)
(* reset once, in the task that made it: ContextVar.reset raises           *)
(* RuntimeError for a used token, else ValueError in another task.         *)
(***************************************************************************)
\* task t enters n: `async with n:` begins
aenter(t, n) ==
    IF check_closed(n)
    THEN UNCHANGED <<current_context, reset_token, entered>>
    ELSE /\ reset_token' = [reset_token EXCEPT ![n] =
                [host_task |-> t, old_value |-> current_context[t], used |-> FALSE]]
         /\ current_context' = [current_context EXCEPT ![t] = n]
         /\ entered' = [entered EXCEPT ![t] =
                Append(@, [node |-> n, before |-> current_context[t], owner |-> t])]

\* what a task that left __aexit__ keeps: how the reset went.  __aexit__ raises
\* the RuntimeError of the reset if it raised one, else it ends as close did
AexitDone(n, reset) == [pc |-> "done", node |-> n, reset |-> reset]

\* the finally clause of __aexit__ in task t, close having ended in this step
aexit_finally(t, n) ==
    IF reset_token[n].used
    THEN /\ aexit' = [aexit EXCEPT ![t] = AexitDone(n, "RuntimeError")]
         /\ UNCHANGED <<current_context, reset_token, warnings>>
    ELSE IF reset_token[n].host_task # t
    THEN /\ warnings' = warnings \cup
                {[node |-> n, entered_in |-> reset_token[n].host_task, exited_in |-> t]}
         /\ aexit' = [aexit EXCEPT ![t] = AexitDone(n, "ValueError")]
         /\ UNCHANGED <<current_context, reset_token>>
    ELSE /\ current_context' = [current_context EXCEPT ![t] = reset_token[n].old_value]
         /\ reset_token' = [reset_token EXCEPT ![n].used = TRUE]
         /\ aexit' = [aexit EXCEPT ![t] = AexitDone(n, "ok")]
         /\ UNCHANGED warnings

\* task t calls __aexit__ of the node of a block with the exception of the block:
\* up to the call of the first teardown callback or, if close ends before, to the
\* end of __aexit__.  The frame remembers the block that is left
aexit_call(t, block, exc_val) ==
    /\ close(t, block.node, exc_val)
    /\ IF tasks'[t].pc = "done"
       THEN aexit_finally(t, block.node)
       ELSE /\ aexit' = [aexit EXCEPT ![t] =
                    [pc |-> "close", node |-> block.node, block |-> block]]
            /\ UNCHANGED <<current_context, reset_token, warnings>>

\* the callback task t waits for ends, in a close that __aexit__ may have called
callback_ends_in_aexit(t, outcome) ==
    /\ callback_ends(t, outcome)
    /\ IF aexit[t].pc = "close" /\ tasks'[t].pc = "done"
       THEN aexit_finally(t, aexit[t].node)
       ELSE UNCHANGED <<current_context, reset_token, aexit, warnings>>

(***************************************************************************)
(* The operations of entering and exiting, with their inputs               *)
(***************************************************************************)
\* the nodes that are entered
ScopeNodes == {"R", "C"}

\* the block a task exits: the innermost one it is in or, when a block is left in
\* another task than it was entered in (an async generator finalized elsewhere),
\* the innermost one of that task
Innermost(t) == entered[t][Len(entered[t])]
Pop(q) == SubSeq(q, 1, Len(q) - 1)

RECURSIVE SumBlocks(_)
SumBlocks(S) ==
    IF S = {} THEN 0
    ELSE LET t == CHOOSE t \in S : TRUE IN Len(entered[t]) + SumBlocks(S \ {t})
\* the blocks the tasks are in, all together
NumBlocks == SumBlocks(Tasks)

EnterBy(t, n) ==
    /\ Free(t)
    /\ NumBlocks < MaxBlocks
    /\ aenter(t, n)
    /\ UNCHANGED <<parent, closed, resources, resource_factories,
                   resource_factories_by_context_attr, attrs, teardown_callbacks,
                   tasks, invocations, tdlog, aexit, warnings>>

Enter == \E t \in Tasks, n \in ScopeNodes : EnterBy(t, n)

\* <<t, owner>>: task t leaves a block that task owner entered
Exits == {<<t, t>> : t \in Tasks} \cup {<<"t2", "t1">>}

\* task t leaves the innermost block of task owner, the block having ended with
\* exc_val
ExitBy(t, owner, exc_val) ==
    /\ Free(t)
    /\ entered[owner] # << >>
    /\ aexit_call(t, Innermost(owner), exc_val)
    /\ entered' = [entered EXCEPT ![owner] = Pop(@)]
    /\ UNCHANGED <<parent, resources, resource_factories,
                   resource_factories_by_context_attr, attrs, invocations>>

Exit == \E x \in Exits, exc_val \in Exceptions : ExitBy(x[1], x[2], exc_val)

CallbackEndsBy(t, outcome) ==
    /\ tasks[t].pc = "callback"
    /\ callback_ends_in_aexit(t, outcome)
    /\ UNCHANGED <<parent, resources, resource_factories,
                   resource_factories_by_context_attr, attrs, invocations, entered>>

CallbackEndsInScope == \E t \in Tasks, outcome \in Outcomes : CallbackEndsBy(t, outcome)

\* close called in the body of a block, not by __aexit__
CloseBy(t, n) ==
    /\ Free(t)
    /\ close(t, n, "None")
    /\ UNCHANGED <<scope_vars, parent, resources, resource_factories,
                   resource_factories_by_context_attr, attrs, invocations>>

CloseInScope == \E t \in Tasks, n \in TeardownNodes : CloseBy(t, n)

AddTeardownCallbackInScope ==
    /\ NumCallbacks < MaxScopeCallbacks
    /\ \E n \in TeardownNodes : add_teardown_callback(n, TRUE)

NextScope ==
    \/ Enter
    \/ Exit
    \/ CallbackEndsInScope
    \/ CloseInScope
    \/ AddTeardownCallbackInScope

SpecScope == Init /\ [][NextScope]_vars

(***************************************************************************)
(* Context.get_resources                                                   *)
(***************************************************************************)
Max(S) == CHOOSE i \in S : \A j \in S : j <= i

\* ctx._resources.values()
containers(m) == {resources[m][k] : k \in Keys} \ {NoEntry}

\* the first comprehension: the values of the type in the node itself
get_resources_local(n, type) ==
    {c \in containers(n) : ~c.is_factory /\ type \in c.types}

\* the second comprehension calls generate_value on the factories among the values
\* of _resources in the chain; the factories are kept in _resource_factories
get_resources_factories(n, type) ==
    LET chain == context_chain(n)
        names == {c.name : c \in get_resources_local(n, type)}
    IN  {c \in UNION {containers(chain[i]) : i \in 1..Len(chain)} :
            c.is_factory /\ type \in c.types /\ c.name \notin names}

\* the third comprehension: the values of the type in the ancestors under the names
\* not yet found; a later item of a dict comprehension replaces an earlier one of
\* the same name, so the farthest ancestor gives the value
get_resources_parents(n, type) ==
    LET chain == context_chain(n)
        names == {c.name : c \in get_resources_local(n, type)}
        hits(i, name) == {c \in containers(chain[i]) :
                             ~c.is_factory /\ type \in c.types /\ c.name = name}
        where(name) == {i \in 2..Len(chain) : hits(i, name) # {}}
    IN  {CHOOSE c \in hits(Max(where(name)), name) : TRUE :
            name \in {x \in Names \ names : where(x) # {}}}

\* set(resources.values()); the method does not call _check_closed
get_resources(n, type) ==
    [values |-> {c.value_or_factory :
                    c \in get_resources_local(n, type) \cup get_resources_parents(n, type)}]

(***************************************************************************)
(* The lookups, called by a task that keeps what they return or raise      *)
(***************************************************************************)
\* the nodes the lookups are called on: one that is closed in time, and its child
LookupNodes == {"C", "G"}
\* the task that calls them
LookupTasks == {"t1"}

GetResourcesBy(t, n, type) ==
    /\ Free(t)
    /\ get_resources_factories(n, type) = {}
    /\ tasks' = [tasks EXCEPT ![t] = Done("get_resources", n, get_resources(n, type))]
    /\ UNCHANGED <<scope_vars, parent, closed, resources, resource_factories,
                   resource_factories_by_context_attr, attrs, teardown_callbacks,
                   invocations, tdlog>>

GetResources == \E t \in LookupTasks, n \in LookupNodes, type \in Types : GetResourcesBy(t, n, type)

GetResourceBy(t, n, key, factory_returns) ==
    /\ Free(t)
    /\ get_resource(n, key, factory_returns)
    /\ tasks' = [tasks EXCEPT ![t] =
           Done("get_resource", n,
                get_resource_result(n, key, get_resource_branch(n, key), factory_returns))]
    /\ UNCHANGED <<scope_vars, parent, closed, resource_factories,
                   resource_factories_by_context_attr, teardown_callbacks, tdlog>>

GetResourceInTask ==
    \E t \in LookupTasks, n \in LookupNodes, key \in WaitKeys, factory_returns \in BOOLEAN :
        GetResourceBy(t, n, key, factory_returns)

RequireResourceBy(t, n, key, factory_returns) ==
    /\ Free(t)
    /\ get_resource(n, key, factory_returns)
    /\ tasks' = [tasks EXCEPT ![t] =
           Done("require_resource", n,
                require_resource_result(n, key, get_resource_branch(n, key),
                                        factory_returns))]
    /\ UNCHANGED <<scope_vars, parent, closed, resource_factories,
                   resource_factories_by_context_attr, teardown_callbacks, tdlog>>

RequireResource ==
    \E t \in LookupTasks, n \in LookupNodes, key \in WaitKeys, factory_returns \in BOOLEAN :
        RequireResourceBy(t, n, key, factory_returns)

RequestResourceBy(t, n, key, factory_returns) ==
    /\ Free(t)
    /\ NumCalls + Cardinality(Busy) < MaxCalls
    /\ request_resource(t, n, key, factory_returns)
    /\ UNCHANGED <<scope_vars, parent, closed, resource_factories,
                   resource_factories_by_context_attr, teardown_callbacks, tdlog>>

RequestResourceInTask ==
    \E t \in LookupTasks, n \in LookupNodes, key \in WaitKeys, factory_returns \in BOOLEAN :
        RequestResourceBy(t, n, key, factory_returns)

NextLookup ==
    \/ AddResourceOnPublishNode
    \/ AddResourceFactoryOnPublishNode
    \/ CloseInScope
    \/ GetResources
    \/ GetResourceInTask
    \/ RequireResource
    \/ RequestResourceInTask
    \/ ResumeSome

SpecLookup == Init /\ [][NextLookup]_vars

(***************************************************************************)
(* A waiter and what another task does before it resumes, with the inputs  *)
(***************************************************************************)
\* the task that does the other operations
OtherTasks == Tasks \ LookupTasks

\* the waiting task makes one request
RequestResourceOnce ==
    \E t \in LookupTasks, n \in LookupNodes, key \in WaitKeys, factory_returns \in BOOLEAN :
        /\ tasks[t] = Idle
        /\ RequestResourceBy(t, n, key, factory_returns)

\* the lookups of the other task on the nodes of the waiter; it drops what they give
GetResourceMeanwhile ==
    \E n \in LookupNodes, key \in WaitKeys, factory_returns \in BOOLEAN :
        /\ get_resource(n, key, factory_returns)
        /\ UNCHANGED <<scope_vars, parent, closed, resource_factories,
                       resource_factories_by_context_attr, teardown_callbacks,
                       tasks, tdlog>>

CloseMeanwhile == \E t \in OtherTasks, n \in TeardownNodes : CloseBy(t, n)

NextRelease ==
    \/ RequestResourceOnce
    \/ ResumeSome
    \/ AddResourceOnPublishNode
    \/ AddResourceFactoryOnPublishNode
    \/ GetResourceMeanwhile
    \/ CloseMeanwhile

SpecRelease == Init /\ [][NextRelease]_vars

(***************************************************************************)
(* The close of a node between its parent and its child, with the inputs   *)
(***************************************************************************)
\* the nodes that get teardown callbacks and are closed: a node and its child
FrameNodes == {"C", "G"}

AddTeardownCallbackOnFrameNode ==
    /\ NumCallbacks < MaxFrameCallbacks
    /\ \E n \in FrameNodes : add_teardown_callback(n, TRUE)

CloseOnBy(t, n, exception) ==
    /\ Free(t)
    /\ close(t, n, exception)
    /\ UNCHANGED <<scope_vars, parent, resources, resource_factories,
                   resource_factories_by_context_attr, attrs, invocations>>

CloseFrameNode == \E t \in OtherTasks, n \in FrameNodes : CloseOnBy(t, n, "None")

CallbackEndsOnBy(t, outcome) ==
    /\ tasks[t].pc = "callback"
    /\ callback_ends(t, outcome)
    /\ UNCHANGED <<scope_vars, parent, resources, resource_factories,
                   resource_factories_by_context_attr, attrs, invocations>>

CallbackEndsOnFrameNode ==
    \E t \in Tasks, outcome \in Outcomes : CallbackEndsOnBy(t, outcome)

\* what the parent and the node hold, and the lookups of the key on the two nodes
FrameKey == <<"T1", "n">>

AddResourceAboveFrame ==
    /\ NumEntries < MaxEntries
    /\ \E n \in PublishNodes : add_resource(n, Plain(1), FrameKey[2], NoAttr, {FrameKey[1]})

AddResourceFactoryAboveFrame ==
    /\ NumEntries < MaxEntries
    /\ \E n \in PublishNodes : add_resource_factory(n, {FrameKey[1]}, FrameKey[2], NoAttr)

GetResourceOnFrameNode ==
    \E n \in FrameNodes, factory_returns \in BOOLEAN :
        /\ get_resource(n, FrameKey, factory_returns)
        /\ UNCHANGED <<scope_vars, parent, closed, resource_factories,
                       resource_factories_by_context_attr, teardown_callbacks,
                       tasks, tdlog>>

NextFrame ==
    \/ AddTeardownCallbackOnFrameNode
    \/ CloseFrameNode
    \/ CallbackEndsOnFrameNode
    \/ AddResourceAboveFrame
    \/ AddResourceFactoryAboveFrame
    \/ GetResourceOnFrameNode

SpecFrame == Init /\ [][NextFrame]_vars

(***************************************************************************)
(* current_context and inject.  inject_wrapper is cut where it awaits a    *)
(* resource that is awaitable; between two such points it runs alone.      *)
(***************************************************************************)
\* a resource that is awaitable, and what awaiting it gives
Awaitable == [kind |-> "awaitable", id |-> 1]
Awaited(v) == [kind |-> "awaited", of |-> v]
isawaitable(v) == v.kind = "awaitable"

\* the wrapped functions, and injected_resources of each: the (cls, name) of its
\* parameters that have a Dependency as default, in the order of the signature
Functions == {"f1", "f2"}
injected_resources(func) ==
    IF func = "f1" THEN <<(<<"T1", "n">>)>> ELSE << <<"T1", "n">>, <<"T2", "n">> >>

\* current_context() in task t: the context, or NoNode where it raises
current_context_get(t) == current_context[t]

\* inject_wrapper has the resources of the first i - 1 parameters, injected: it goes on
\* with the i-th, or past the last one calls the wrapped function with them
inject_next(t, func, ctx, i, injected) ==
    tasks' = [tasks EXCEPT ![t] =
        IF i <= Len(injected_resources(func))
        THEN [pc |-> "inject", func |-> func, node |-> ctx, i |-> i,
              resources |-> injected]
        ELSE Done("inject_wrapper", ctx, [invoked |-> func, resources |-> injected])]

\* task t calls the wrapper of func
inject_wrapper(t, func) ==
    IF current_context_get(t) = NoNode
    THEN tasks' = [tasks EXCEPT ![t] =
             Done("inject_wrapper", NoNode, [raises |-> "NoCurrentContext"])]
    ELSE inject_next(t, func, current_context_get(t), 1, << >>)

\* a faulty variant: the resource is passed on as it is, awaitable or not
inject_resolve_unawaited(t, factory_returns) ==
    LET fr == tasks[t]
        key == injected_resources(fr.func)[fr.i]
        resource == require_resource_result(fr.node, key,
                        get_resource_branch(fr.node, key), factory_returns)
    IN  /\ get_resource(fr.node, key, factory_returns)
        /\ IF "raises" \in DOMAIN resource
           THEN tasks' = [tasks EXCEPT ![t] = Done("inject_wrapper", fr.node, resource)]
           ELSE inject_next(t, fr.func, fr.node, fr.i + 1,
                            Append(fr.resources, resource.returns))

\* one pass of the loop: require_resource for the i-th parameter, up to the await
\* if the resource is awaitable
inject_resolve(t, factory_returns) ==
    LET fr == tasks[t]
        key == injected_resources(fr.func)[fr.i]
        resource == require_resource_result(fr.node, key,
                        get_resource_branch(fr.node, key), factory_returns)
    IN  /\ get_resource(fr.node, key, factory_returns)
        /\ IF "raises" \in DOMAIN resource
           THEN tasks' = [tasks EXCEPT ![t] = Done("inject_wrapper", fr.node, resource)]
           ELSE IF isawaitable(resource.returns)
           THEN tasks' = [tasks EXCEPT ![t] =
                    [pc |-> "await_resource", func |-> fr.func, node |-> fr.node,
                     i |-> fr.i, resources |-> fr.resources,
                     resource |-> resource.returns]]
           ELSE inject_next(t, fr.func, fr.node, fr.i + 1,
                            Append(fr.resources, resource.returns))

\* `resource = await resource` ends in task t
inject_awaited(t, outcome) ==
    LET fr == tasks[t]
    IN  CASE outcome = "returns" ->
                inject_next(t, fr.func, fr.node, fr.i + 1,
                            Append(fr.resources, Awaited(fr.resource)))
          [] outcome = "raises" ->
                tasks' = [tasks EXCEPT ![t] =
                    Done("inject_wrapper", fr.node, [raises |-> "Exc"])]
          [] outcome = "cancelled" ->
                tasks' = [tasks EXCEPT ![t] =
                    Done("inject_wrapper", fr.node, [raises |-> "CancelledError"])]

(***************************************************************************)
(* The operations of injection, with their inputs                          *)
(***************************************************************************)
\* the task that calls wrapped functions
InjectTasks == {"t1"}

\* no task is inside a wrapper between two awaits: other code can run
NoneRunning == \A t \in Tasks : tasks[t].pc # "inject"

InjectCallBy(t, func) ==
    /\ Free(t)
    /\ inject_wrapper(t, func)
    /\ UNCHANGED <<scope_vars, parent, closed, resources, resource_factories,
                   resource_factories_by_context_attr, attrs, teardown_callbacks,
                   invocations, tdlog>>

InjectCall == NoneRunning /\ \E t \in InjectTasks, func \in Functions : InjectCallBy(t, func)

InjectResolveBy(t, factory_returns) ==
    /\ tasks[t].pc = "inject"
    /\ inject_resolve(t, factory_returns)
    /\ UNCHANGED <<scope_vars, parent, closed, resource_factories,
                   resource_factories_by_context_attr, teardown_callbacks, tdlog>>

InjectResolve == \E t \in Tasks, factory_returns \in BOOLEAN : InjectResolveBy(t, factory_returns)

InjectAwaitedBy(t, outcome) ==
    /\ tasks[t].pc = "await_resource"
    /\ inject_awaited(t, outcome)
    /\ UNCHANGED <<scope_vars, parent, closed, resources, resource_factories,
                   resource_factories_by_context_attr, attrs, teardown_callbacks,
                   invocations, tdlog>>

InjectAwaited ==
    NoneRunning /\ \E t \in Tasks, outcome \in Outcomes : InjectAwaitedBy(t, outcome)

\* the resources of the wrapped functions: awaitable ones that are added, and
\* those that factories make
InjectTypes == {{"T1"}, {"T2"}}

AddResourceOnScopeNode ==
    /\ NoneRunning
    /\ NumEntries < MaxEntries
    /\ \E n \in ScopeNodes, types \in InjectTypes :
            add_resource(n, Awaitable, "n", NoAttr, types)

AddResourceFactoryOnScopeNode ==
    /\ NoneRunning
    /\ NumEntries < MaxEntries
    /\ \E n \in ScopeNodes, types \in InjectTypes :
            add_resource_factory(n, types, "n", NoAttr)

\* the calling task enters and leaves blocks; any task closes a node meanwhile
EnterBetween == NoneRunning /\ \E t \in InjectTasks, n \in TeardownNodes : EnterBy(t, n)
ExitBetween == NoneRunning /\ \E t \in InjectTasks : ExitBy(t, t, "None")
CloseBetween == NoneRunning /\ \E t \in Tasks \ InjectTasks, n \in TeardownNodes : CloseBy(t, n)

NextInject ==
    \/ InjectCall
    \/ InjectResolve
    \/ InjectAwaited
    \/ AddResourceOnScopeNode
    \/ AddResourceFactoryOnScopeNode
    \/ EnterBetween
    \/ ExitBetween
    \/ CloseBetween

SpecInject == Init /\ [][NextInject]_vars

(***************************************************************************)
(* context_teardown.  The wrapper is cut at `await generator.asend(None)`: *)
(* the part of the generator before its first yield runs other code until  *)
(* it yields, finishes (StopAsyncIteration) or raises.                     *)
(***************************************************************************)
FirstParts == {"yields", "finishes", "raises"}

\* task t calls the wrapper with context n: up to the await of the first part
context_teardown_wrapper(t, n) ==
    tasks' = [tasks EXCEPT ![t] = [pc |-> "asend", op |-> "context_teardown", node |-> n]]

\* a faulty variant: the teardown callback is added however the first part ended
context_teardown_resume_always_adds(t, how) ==
    LET n == tasks[t].node
    IN  IF add_teardown_callback_check(n) # "ok"
        THEN /\ tasks' = [tasks EXCEPT ![t] =
                    Done("context_teardown", n, [raises |-> add_teardown_callback_check(n)])]
             /\ UNCHANGED teardown_callbacks
        ELSE /\ teardown_callbacks' = [teardown_callbacks EXCEPT ![n] =
                    Append(@, [id |-> Len(@) + 1, pass_exception |-> TRUE])]
             /\ tasks' = [tasks EXCEPT ![t] =
                    Done("context_teardown", n,
                         IF how = "raises" THEN [raises |-> "Exc"] ELSE [returns |-> None])]

\* the first part has ended in task t: the except clauses and the else clause,
\* ctx.add_teardown_callback(teardown_callback, True)
context_teardown_resume(t, how) ==
    LET n == tasks[t].node
    IN  CASE how = "finishes" ->
                /\ tasks' = [tasks EXCEPT ![t] =
                       Done("context_teardown", n, [returns |-> None])]
                /\ UNCHANGED teardown_callbacks
          [] how = "raises" ->
                /\ tasks' = [tasks EXCEPT ![t] =
                       Done("context_teardown", n, [raises |-> "Exc"])]
                /\ UNCHANGED teardown_callbacks
          [] how = "yields" ->
                IF add_teardown_callback_check(n) # "ok"
                THEN /\ tasks' = [tasks EXCEPT ![t] =
                            Done("context_teardown", n,
                                 [raises |-> add_teardown_callback_check(n)])]
                     /\ UNCHANGED teardown_callbacks
                ELSE /\ teardown_callbacks' = [teardown_callbacks EXCEPT ![n] =
                            Append(@, [id |-> Len(@) + 1, pass_exception |-> TRUE])]
                     /\ tasks' = [tasks EXCEPT ![t] =
                            Done("context_teardown", n, [returns |-> None])]

(***************************************************************************)
(* The operations of context_teardown, with their inputs                   *)
(***************************************************************************)
\* the tasks in the first part of a generator
InFirstPart == {t \in Tasks : tasks[t].pc = "asend"}

ContextTeardownBy(t, n) ==
    /\ Free(t)
    /\ NumCallbacks + Cardinality(InFirstPart) < MaxCallbacks
    /\ context_teardown_wrapper(t, n)
    /\ UNCHANGED <<scope_vars, parent, closed, resources, resource_factories,
                   resource_factories_by_context_attr, attrs, teardown_callbacks,
                   invocations, tdlog>>

ContextTeardown == \E t \in Tasks, n \in TeardownNodes : ContextTeardownBy(t, n)

FirstPartEndsBy(t, how) ==
    /\ tasks[t].pc = "asend"
    /\ context_teardown_resume(t, how)
    /\ UNCHANGED <<scope_vars, parent, closed, resources, resource_factories,
                   resource_factories_by_context_attr, attrs, invocations, tdlog>>

FirstPartEnds == \E t \in Tasks, how \in FirstParts : FirstPartEndsBy(t, how)

NextGenerator ==
    \/ ContextTeardown
    \/ FirstPartEnds
    \/ Close
    \/ CallbackEnds

SpecGenerator == Init /\ [][NextGenerator]_vars

(***************************************************************************)
(* The registrations with a context attribute, with their inputs           *)
(***************************************************************************)
\* the node the registrations are made on, and the (name, types) they are made with
RegisterNodes == {"C"}
RegisterNameTypes ==
    {<<"n", {"T1"}>>, <<"n", {"T2"}>>, <<"n", {"T1", "T2"}>>,
     <<"n", {}>>, <<BadName, {"T1"}>>}

AddResourceWithAttr ==
    /\ NumEntries < MaxEntries
    /\ \E n \in RegisterNodes, value \in {Plain(1), None}, nt \in RegisterNameTypes,
          context_attr \in Attrs \cup {NoAttr} :
            add_resource(n, value, nt[1], context_attr, nt[2])

AddResourceFactoryWithAttr ==
    /\ NumEntries < MaxEntries
    /\ \E n \in RegisterNodes, nt \in RegisterNameTypes, context_attr \in Attrs \cup {NoAttr} :
            add_resource_factory(n, nt[2], nt[1], context_attr)

\* getattr(ctx, name) on the node and its child: a factory of the attribute is
\* materialized into the node asked
GetAttrOfRegisterNode ==
    \E n \in LookupNodes, name \in Attrs, factory_returns \in BOOLEAN :
        /\ getattr(n, name, factory_returns)
        /\ UNCHANGED <<scope_vars, parent, closed, resource_factories,
                       resource_factories_by_context_attr, teardown_callbacks,
                       tasks, tdlog>>

\* a task waits below the node for what is registered on it
RequestResourceBelow ==
    \E t \in LookupTasks, key \in WaitKeys, factory_returns \in BOOLEAN :
        RequestResourceBy(t, "G", key, factory_returns)

NextRegister ==
    \/ AddResourceWithAttr
    \/ AddResourceFactoryWithAttr
    \/ GetAttrOfRegisterNode
    \/ RequestResourceBelow
    \/ ResumeSome
    \/ CloseInScope

SpecRegister == Init /\ [][NextRegister]_vars

(***************************************************************************)
(* The claims.  What a claim calls "nearest" is read off the parent        *)
(* pointers directly, not off context_chain.                               *)
(***************************************************************************)
RECURSIVE Depth(_)
Depth(n) == IF parent[n] = NoNode THEN 0 ELSE 1 + Depth(parent[n])

RECURSIVE IsSelfOrAncestor(_, _)
\* m is n or an ancestor of n
IsSelfOrAncestor(m, n) ==
    \/ m = n
    \/ parent[n] # NoNode /\ IsSelfOrAncestor(m, parent[n])

\* the nodes of n's chain that hold key k in table tbl
Holders(n, tbl, k) == {m \in Nodes : IsSelfOrAncestor(m, n) /\ tbl[m][k] # NoEntry}
\* the one of them nearest to n
Nearest(S) == CHOOSE m \in S : \A x \in S : Depth(m) >= Depth(x)

\* the calls of callback f with context ctx after the step
callsNext(f, ctx) ==
    IF <<f, ctx>> \in DOMAIN invocations' THEN invocations'[<<f, ctx>>] ELSE << >>

IsMade(c) == c # NoEntry /\ c.value_or_factory.kind = "made"
IsPlain(c) == c # NoEntry /\ c.value_or_factory.kind = "plain"

\* C1: what the claim says get_resource(k) on n does
C1_Expected(n, k) ==
    IF resources[n][k] # NoEntry
    THEN [returns |-> resources[n][k].value_or_factory]
    ELSE IF Holders(n, resource_factories, k) # {}
    THEN [generates |-> resource_factories[Nearest(Holders(n, resource_factories, k))][k]]
    ELSE IF Holders(n, resources, k) # {}
    THEN [returns |-> resources[Nearest(Holders(n, resources, k))][k].value_or_factory]
    ELSE [returns |-> None]

\* C1: on every open node get_resource takes the first of: the node's own concrete
\* entry, the nearest factory of the chain (materialized into the node, which then
\* holds the value under the key), the nearest ancestor's concrete entry, absent;
\* so the value add_resource stored in a node is what get_resource returns there.
C1_LookupOrder ==
    /\ [](\A n \in Nodes, k \in Keys :
            ~closed[n] => get_resource_branch(n, k) = C1_Expected(n, k))
    /\ [][invocations' # invocations =>
          \A n \in Nodes, k \in Keys :
            LET b == C1_Expected(n, k)
                f == b.generates.value_or_factory
            IN  /\ ~closed[n]
                /\ "generates" \in DOMAIN b
                /\ callsNext(f, n) = Append(calls(f, n), TRUE)
                => /\ resources'[n][k].value_or_factory = Made(f, n, Len(callsNext(f, n)))
                   /\ get_resource_branch(n, k)' =
                          [returns |-> Made(f, n, Len(callsNext(f, n)))]]_vars

\* C1 witness: G holds the value made by R's factory although C, nearer to G than R,
\* holds a published value under the same key
C1_Witness ==
    \E k \in Keys :
        /\ IsMade(resources["G"][k])
        /\ resources["G"][k].value_or_factory.f.owner = "R"
        /\ resources["G"][k].value_or_factory.ctx = "G"
        /\ IsPlain(resources["C"][k])

\* C2: add_resource on an open node is rejected with ResourceConflict exactly when
\* the node itself already holds one of the keys; neither another name on the node
\* nor the same key on another node makes it fail, and no add_resource replaces an
\* entry a node holds.
C2_ConflictPerNodeAndKey ==
    /\ [](\A n \in Nodes, v \in Values, nt \in ResourceNameTypes :
            ~closed[n] =>
                add_resource_check(n, v, nt[1], NoAttr, nt[2]) =
                    IF \E t \in nt[2] : resources[n][<<t, nt[1]>>] # NoEntry
                    THEN "ResourceConflict" ELSE "ok")
    /\ [][\A n \in Nodes, k \in Keys :
            resources[n][k] # NoEntry /\ resources'[n][k] # resources[n][k]
            => IsMade(resources'[n][k])]_vars

\* C2 witness: a node and its parent hold the same key, each its own value
C2_Witness ==
    \E n \in Nodes, k \in Keys :
        /\ parent[n] # NoNode
        /\ IsPlain(resources[n][k])
        /\ IsPlain(resources[parent[n]][k])
        /\ resources[n][k] # resources[parent[n]][k]

\* C3 as stated: no factory is called more than once with the same context
C3_AtMostOneCall ==
    \A x \in DOMAIN invocations : Len(invocations[x]) <= 1

\* C3 amended: a factory returns at most once per requesting node and is not called
\* again for it once it has returned (calls that raised may precede the one that
\* returned); from then on the node holds a concrete entry under every key of the
\* factory, so that get_resource returns the entry without calling a factory, and
\* an entry that stems from the factory is the value of that one call.
C3_AtMostOneReturn ==
    \A x \in DOMAIN invocations :
        LET f == x[1]
            n == x[2]
            h == invocations[x]
        IN  /\ \A i \in 1..Len(h) : h[i] => i = Len(h)
            /\ h # << >> /\ h[Len(h)] /\ ~closed[n] =>
                 \A t \in f.types :
                    LET k == <<t, f.name>>
                    IN  /\ resources[n][k] # NoEntry
                        /\ get_resource_branch(n, k) =
                               [returns |-> resources[n][k].value_or_factory]
                        /\ IsMade(resources[n][k])
                           /\ resources[n][k].value_or_factory.f = f
                           => resources[n][k].value_or_factory = Made(f, n, Len(h))

\* C3 witness: a factory of two types raised on its first call for a node and
\* returned on the second
C3_Witness ==
    \E x \in DOMAIN invocations :
        /\ invocations[x] = <<FALSE, TRUE>>
        /\ Cardinality(x[1].types) = 2

\* C9: where a node and its child both hold a key, get_resource returns the child's
\* value on the child and the parent's value on the parent and on every other child
\* that has no entry and sees no factory for the key; and an add_resource on a node
\* changes the outcome of get_resource only on nodes whose chain contains that node.
C9_ShadowOnlyInSubtree ==
    /\ [](\A c \in Nodes, k \in Keys :
            LET r == parent[c]
            IN  r # NoNode /\ resources[r][k] # NoEntry /\ resources[c][k] # NoEntry
                /\ ~closed[r] /\ ~closed[c]
                => /\ get_resource_branch(c, k) = [returns |-> resources[c][k].value_or_factory]
                   /\ get_resource_branch(r, k) = [returns |-> resources[r][k].value_or_factory]
                   /\ \A d \in Nodes :
                        /\ d # c /\ parent[d] = r /\ ~closed[d]
                        /\ resources[d][k] = NoEntry
                        /\ Holders(d, resource_factories, k) = {}
                        => get_resource_branch(d, k) =
                               [returns |-> resources[r][k].value_or_factory])
    /\ [][\A c \in Nodes :
            resources'[c] # resources[c] /\ invocations' = invocations
            => \A d \in Nodes, k \in Keys :
                    ~IsSelfOrAncestor(c, d)
                    => get_resource_branch(d, k)' = get_resource_branch(d, k)]_vars

\* C9 witness: R holds a value, its child C another one under the same key, and the
\* other child D none
C9_Witness ==
    \E k \in Keys :
        /\ IsPlain(resources["R"][k])
        /\ IsPlain(resources["C"][k])
        /\ resources["C"][k].value_or_factory # resources["R"][k].value_or_factory
        /\ resources["D"][k] = NoEntry

Last(s) == s[Len(s)]

\* the ids of the callbacks the history has an event of this kind for
IdsOf(log, kind) == {log[j][2] : j \in {j \in 1..Len(log) : log[j][1] = kind}}

\* the callbacks that were called and have not ended
InProgress(log) == IdsOf(log, "call") \ IdsOf(log, "end")

\* the exceptions of the callbacks that raised, in the order they were raised
RaisedIn(log) ==
    LET ends == SelectSeq(log, LAMBDA e : e[1] = "end" /\ e[3] = "raises")
    IN  [j \in 1..Len(ends) |-> Err(ends[j][2])]

\* task t has, in this step, left a close of n that the closed check let in
LeavesClose(t, n) ==
    /\ tasks'[t] # tasks[t]
    /\ tasks'[t].pc = "done"
    /\ tasks'[t].op = "close"
    /\ tasks'[t].node = n
    /\ tasks'[t].result # [raises |-> "RuntimeError"]

\* a callback of the history ended with a BaseException that is no Exception
Interrupted(log) == \E j \in 1..Len(log) : log[j][1] = "end" /\ log[j][3] = "cancelled"

\* C4: close() calls the teardown callbacks of a node one at a time and in the
\* reverse of the order they were registered in: the history of a node is a call,
\* its end, the next call, its end, ...; the first callback called is the one
\* registered last, each later one the one registered just before the previous
\* one, called only after the previous one (and what it returned) has ended; at
\* most one callback of a node is in progress.
C4_ReverseSequential ==
    /\ [](\A n \in Nodes :
            /\ Cardinality(InProgress(tdlog[n])) <= 1
            /\ \A j \in 1..Len(tdlog[n]) :
                 IF j % 2 = 1
                 THEN /\ tdlog[n][j][1] = "call"
                      /\ j > 1 => tdlog[n][j][2] = tdlog[n][j - 2][2] - 1
                 ELSE /\ tdlog[n][j][1] = "end"
                      /\ tdlog[n][j][2] = tdlog[n][j - 1][2])
    /\ [][\A n \in Nodes :
            (tdlog[n] = << >> /\ tdlog'[n] # << >>)
                => /\ Len(tdlog'[n]) = 1
                   /\ tdlog'[n][1][1] = "call"
                   /\ tdlog'[n][1][2] = Len(teardown_callbacks[n])]_vars

\* C4 witness: three callbacks of C were called, last registered first, the second
\* of them raising
C4_Witness ==
    /\ Len(tdlog["C"]) = 6
    /\ tdlog["C"][1][2] = 3
    /\ tdlog["C"][4] = <<"end", 2, "raises">>
    /\ tdlog["C"][5][2] = 1
    /\ InProgress(tdlog["C"]) = {}

\* C5 as stated: when close() ends, every registered callback was called, close
\* raised TeardownError exactly if a callback raised, and the aggregate holds the
\* errors of the failing callbacks in the order they were raised.
C5_AllAttempted ==
    [][\A t \in Tasks, n \in Nodes :
          LeavesClose(t, n)
              => /\ IdsOf(tdlog'[n], "call") = 1..Len(teardown_callbacks[n])
                 /\ IF RaisedIn(tdlog'[n]) # << >>
                    THEN tasks'[t].result = [raises |-> "TeardownError",
                                             exceptions |-> RaisedIn(tdlog'[n])]
                    ELSE tasks'[t].result = [returns |-> None]]_vars

\* C5, amended: a callback that raises an Exception does not stop close(): unless a
\* callback ended with a BaseException that is no Exception, close() ends after
\* every registered callback was called and has ended, raising TeardownError
\* exactly if a callback raised, the aggregate holding the errors of the failing
\* callbacks in the order they were raised.  A callback that ends with such a
\* BaseException ends close() at once with that exception: the callbacks
\* registered before it are not called and no TeardownError is raised.
C5_AllAttemptedUnlessInterrupted ==
    [][\A t \in Tasks, n \in Nodes :
          LeavesClose(t, n)
              => IF Interrupted(tdlog'[n])
                 THEN /\ tasks'[t].result = [raises |-> "CancelledError"]
                      /\ Last(tdlog'[n])[3] = "cancelled"
                      /\ IdsOf(tdlog'[n], "call")
                             = Last(tdlog'[n])[2]..Len(teardown_callbacks[n])
                      /\ teardown_callbacks'[n] = teardown_callbacks[n]
                 ELSE /\ IdsOf(tdlog'[n], "call") = 1..Len(teardown_callbacks[n])
                      /\ IdsOf(tdlog'[n], "end") = 1..Len(teardown_callbacks[n])
                      /\ teardown_callbacks'[n] = Deleted
                      /\ IF RaisedIn(tdlog'[n]) # << >>
                         THEN tasks'[t].result = [raises |-> "TeardownError",
                                                  exceptions |-> RaisedIn(tdlog'[n])]
                         ELSE tasks'[t].result = [returns |-> None]]_vars

\* C5 witness: of three callbacks the one registered last and the one registered
\* first raised, the one between them returned, and close raised both errors
C5_Witness ==
    \E t \in Tasks :
        /\ tasks[t].pc = "done"
        /\ tasks[t].op = "close"
        /\ tasks[t].result = [raises |-> "TeardownError",
                              exceptions |-> <<Err(3), Err(1)>>]
        /\ Len(tdlog[tasks[t].node]) = 6

\* C6: from the moment close() has set the closed flag of a node, add_resource,
\* add_resource_factory and add_teardown_callback on it raise the closed-node
\* error whatever their arguments and change nothing, a close() on it ends at
\* once with the closed-node error, calling no callback, and the flag stays set.
C6_ClosedRejects ==
    /\ [](\A n \in Nodes :
            closed[n]
                => /\ add_teardown_callback_check(n) = "RuntimeError"
                   /\ \A v \in Values \cup {None}, nt \in ResourceNameTypes \cup BadNameTypes,
                        a \in Attrs \cup {NoAttr} :
                          add_resource_check(n, v, nt[1], a, nt[2]) = "RuntimeError"
                   /\ \A i \in FactoryInputs :
                          add_resource_factory_check(n, i[2], i[1], i[3]) = "RuntimeError")
    /\ [][\A n \in Nodes :
            closed[n]
                => /\ closed'[n]
                   /\ resources'[n] = resources[n]
                   /\ resource_factories'[n] = resource_factories[n]
                   /\ resource_factories_by_context_attr'[n]
                          = resource_factories_by_context_attr[n]
                   /\ teardown_callbacks'[n] \in {teardown_callbacks[n], Deleted}
                   /\ \A t \in Tasks :
                        (Free(t) /\ tasks'[t] # tasks[t] /\ tasks'[t].node = n)
                            => /\ tasks'[t] = Done("close", n, [raises |-> "RuntimeError"])
                               /\ tdlog'[n] = tdlog[n]]_vars

\* C6 witness: while a callback of C's close is in progress in one task, the
\* close of C another task called has ended with the closed-node error
C6_Witness ==
    \E t, u \in Tasks :
        /\ tasks[t].pc = "callback"
        /\ tasks[t].node = "C"
        /\ tasks[u] = Done("close", "C", [raises |-> "RuntimeError"])
        /\ closed["C"]

(***************************************************************************)
(* Waiting for a resource                                                  *)
(***************************************************************************)
\* task t is suspended in request_resource
Suspended(t) == tasks[t].pc = "wait_event"

\* something is visible under key k from node n
Visible(n, k) == C1_Expected(n, k) # [returns |-> None]

\* this step publishes key k on node P: add_resource or add_resource_factory gives P
\* a container of its own under k
Publishes(P, k) ==
    \/ resource_factories[P][k] = NoEntry /\ resource_factories'[P][k] # NoEntry
    \/ resources[P][k] = NoEntry /\ IsPlain(resources'[P][k])

\* C7: a task suspended in request_resource(k) on an open node n is suspended
\* exactly as long as nothing is visible under k in n's chain (so no publish is
\* lost); it leaves the suspension only in a step that publishes k in the chain;
\* once released it is eventually resumed and then returns what get_resource(k)
\* yields on n at that time: the nearest published value if no factory is in the
\* chain, else the value the nearest factory makes for n (or that factory's error).
C7_WaiterReleased ==
    /\ [](\A t \in Tasks :
            Suspended(t) => ~Visible(tasks[t].node, tasks[t].key))
    /\ [][\A t \in Tasks :
            (Suspended(t) /\ tasks'[t] # tasks[t])
                => /\ tasks'[t] = [tasks[t] EXCEPT !.pc = "woken"]
                   /\ \E P \in Nodes :
                        /\ IsSelfOrAncestor(P, tasks[t].node)
                        /\ Publishes(P, tasks[t].key)]_vars
    /\ [][\A t \in Tasks :
            (tasks[t].pc = "woken" /\ tasks'[t] # tasks[t])
                => LET n == tasks[t].node
                       k == tasks[t].key
                       b == C1_Expected(n, k)
                   IN  /\ tasks'[t].pc = "done"
                       /\ tasks'[t].waited
                       /\ b # [returns |-> None]
                       /\ IF "returns" \in DOMAIN b
                          THEN tasks'[t].result = b
                          ELSE LET f == b.generates.value_or_factory
                               IN  \/ /\ callsNext(f, n) = Append(calls(f, n), TRUE)
                                      /\ tasks'[t].result
                                           = [returns |-> Made(f, n, Len(callsNext(f, n)))]
                                   \/ /\ callsNext(f, n) = Append(calls(f, n), FALSE)
                                      /\ tasks'[t].result = [raises |-> "FactoryError"]]_vars
    /\ \A t \in Tasks :
            (tasks[t].pc \in {"wait_event", "woken"}
                 /\ Visible(tasks[t].node, tasks[t].key))
                ~> (tasks[t].pc = "done")

\* C7 witness: a task that was suspended on G has returned the value published on
\* R, the only node of G's chain that holds the key
C7_Witness ==
    \E t \in Tasks :
        /\ tasks[t].pc = "done"
        /\ tasks[t].op = "request_resource"
        /\ tasks[t].waited
        /\ tasks[t].node = "G"
        /\ IsPlain(resources["R"][tasks[t].key])
        /\ tasks[t].result = [returns |-> resources["R"][tasks[t].key].value_or_factory]
        /\ Holders("G", resources, tasks[t].key) = {"R"}
        /\ Holders("G", resource_factories, tasks[t].key) = {}

\* C8: a step that publishes key k on node P releases every task suspended in
\* request_resource(k) on a node whose chain contains P, so none of them is still
\* suspended after it; every released task is eventually resumed, with no further
\* publish.
C8_OnePublishReleasesAll ==
    /\ [][\A P \in Nodes, k \in Keys :
            Publishes(P, k)
                => \A t \in Tasks :
                     (Suspended(t) /\ tasks[t].key = k
                          /\ IsSelfOrAncestor(P, tasks[t].node))
                         => tasks'[t].pc = "woken"]_vars
    /\ [][\A t \in Tasks :
            (tasks[t].pc = "woken" /\ tasks'[t] # tasks[t])
                => /\ tasks'[t].pc = "done"
                   /\ resource_factories' = resource_factories
                   /\ \A P \in Nodes, k \in Keys : ~Publishes(P, k)]_vars
    /\ \A t \in Tasks : (tasks[t].pc = "woken") ~> (tasks[t].pc = "done")

\* C8 witness: the two tasks, suspended on G and on D for the same key, are both
\* released, and R is the only node that holds the key
C8_Witness ==
    \E k \in Keys :
        /\ tasks["t1"].pc = "woken"
        /\ tasks["t2"].pc = "woken"
        /\ tasks["t1"].key = k
        /\ tasks["t2"].key = k
        /\ tasks["t1"].node # tasks["t2"].node
        /\ \A n \in Nodes \ {"R"} :
                resources[n][k] = NoEntry /\ resource_factories[n][k] = NoEntry

(***************************************************************************)
(* The claims about entering and exiting                                   *)
(***************************************************************************)
\* task t leaves a block it entered itself, the block having ended with exc_val:
\* the step that begins __aexit__
LeavesOwn(t, exc_val) == entered'[t] # entered[t] /\ ExitBy(t, t, exc_val)

\* the step that ends an __aexit__ of task t which waited for a teardown callback
EndsAexit(t) ==
    /\ aexit[t].pc = "close"
    /\ aexit'[t].pc = "done"
    /\ \E outcome \in Outcomes : CallbackEndsBy(t, outcome)

\* C11: when a task leaves a block of node N that it entered itself, innermost
\* block first, __aexit__ first runs close on N with the exception of the block,
\* leaving the current context alone while close runs, and when __aexit__ ends,
\* whether close returned, raised TeardownError, was cancelled or was rejected
\* because N is closed, the task's current context is the one it had before it
\* entered the block
C11_RestoredOnEveryExit ==
    [][\A t \in Tasks :
          /\ \A exc_val \in Exceptions :
                LeavesOwn(t, exc_val) =>
                    LET block == Innermost(t)
                        n == block.node
                    IN  /\ closed'[n]
                        /\ tasks'[t].node = n
                        /\ aexit'[t].pc = "close" =>
                              /\ current_context' = current_context
                              /\ tasks'[t].exception = exc_val
                        /\ aexit'[t].pc = "done" =>
                              /\ tasks'[t].op = "close"
                              /\ current_context'[t] = block.before
          /\ EndsAexit(t) /\ aexit[t].block.owner = t =>
                /\ tasks'[t].op = "close"
                /\ current_context'[t] = aexit[t].block.before]_vars

\* a task has left, with the pointer restored, a block whose close raised
C11_Witness ==
    \E t \in Tasks :
        /\ aexit[t].pc = "done"
        /\ aexit[t].reset = "ok"
        /\ tasks[t] = Done("close", aexit[t].node,
                           [raises |-> "TeardownError", exceptions |-> <<Err(1)>>])
        /\ current_context[t] = NoNode

\* task t is in no block of node n
NotIn(t, n) == \A i \in 1..Len(entered[t]) : entered[t][i].node # n

\* how an __aexit__ of n in task t ends when it reports instead of raising
EndsWithWarning(t, n) ==
    /\ aexit'[t].reset = "ValueError"
    /\ \E w \in warnings' : w.node = n /\ w.exited_in = t
    /\ current_context'[t] = current_context[t]

\* C14: when a block of node N that task A entered is left in another task B,
\* which is in no block of N itself, __aexit__ still runs close on N, the reset
\* that fails is reported as a warning and not raised, and B's current context
\* is what it was before the exit
C14_CrossTaskExitWarns ==
    [][\A t \in Tasks :
          /\ \A owner \in Tasks \ {t}, exc_val \in Exceptions :
                (/\ entered'[owner] # entered[owner]
                 /\ ExitBy(t, owner, exc_val)
                 /\ NotIn(t, Innermost(owner).node)) =>
                    LET n == Innermost(owner).node
                    IN  /\ closed'[n]
                        /\ tasks'[t].node = n
                        /\ aexit'[t].pc = "close" => current_context' = current_context
                        /\ aexit'[t].pc = "done" => EndsWithWarning(t, n)
          /\ (/\ EndsAexit(t)
              /\ aexit[t].block.owner # t
              /\ NotIn(t, aexit[t].node)) => EndsWithWarning(t, aexit[t].node)]_vars

\* a task has left a block of another task: a warning, and its own pointer as before
C14_Witness ==
    \E w \in warnings :
        /\ w.entered_in # w.exited_in
        /\ aexit[w.exited_in] = AexitDone(w.node, "ValueError")
        /\ closed[w.node]
        /\ current_context[w.exited_in] # w.node

(***************************************************************************)
(* The claims about get_resources and the lookups on a closed node         *)
(***************************************************************************)
\* the factories of the type in the chain of n that the claim has get_resources
\* materialize: <<node, key>> of those whose name is not the name of a value of
\* the type in n itself
C12_Due(n, type) ==
    {<<m, k>> \in Nodes \X Keys :
        /\ IsSelfOrAncestor(m, n)
        /\ k[1] = type
        /\ resource_factories[m][k] # NoEntry
        /\ resources[n][k] = NoEntry}

\* C12: get_resources(T) on node N returns, for every factory registered under T
\* on a node of N's chain whose name is not the name of a value of type T in N
\* itself, a value that the factory made for N, and after the call N holds that
\* value as a concrete entry under the factory's key
C12_MaterializesFactories ==
    [][\A t \in LookupTasks, n \in LookupNodes, type \in Types :
          (tasks' # tasks /\ GetResourcesBy(t, n, type)) =>
              \A d \in C12_Due(n, type) :
                  /\ IsMade(resources'[n][d[2]])
                  /\ resources'[n][d[2]].value_or_factory.f
                        = resource_factories[d[1]][d[2]].value_or_factory
                  /\ resources'[n][d[2]].value_or_factory \in tasks'[t].result.values]_vars

\* no factory is ever among the values of _resources, where get_resources looks
\* for the factories
C12_NoFactoryInResources ==
    \A n \in Nodes, type \in Types : get_resources_factories(n, type) = {}

\* the closed-node error
ClosedError == [raises |-> "RuntimeError"]

\* C13: once a node is closed, every get_resource, get_resources,
\* require_resource and request_resource called on it raises the closed-node
\* error: none returns a value or None, raises ResourceNotFound or waits
C13_ClosedLookupsFail ==
    [][\A t \in LookupTasks, n \in LookupNodes :
          (closed[n] /\ tasks'[t] # tasks[t]) =>
              /\ \A type \in Types :
                    GetResourcesBy(t, n, type) => tasks'[t].result = ClosedError
              /\ \A key \in WaitKeys, factory_returns \in BOOLEAN :
                    /\ GetResourceBy(t, n, key, factory_returns)
                          => tasks'[t].result = ClosedError
                    /\ RequireResourceBy(t, n, key, factory_returns)
                          => tasks'[t].result = ClosedError
                    /\ RequestResourceBy(t, n, key, factory_returns)
                          => tasks'[t] = DoneRequest(n, key, ClosedError, FALSE)]_vars

\* request_resource has raised the closed-node error on a closed node that holds a
\* value under the key
C13_Witness ==
    \E t \in LookupTasks, k \in WaitKeys :
        /\ closed["C"]
        /\ resources["C"][k] # NoEntry
        /\ tasks[t] = DoneRequest("C", k, ClosedError, FALSE)

(***************************************************************************)
(* The claims about inject                                                 *)
(***************************************************************************)
\* the wrapped function is called in the step: the frame after it says so
Invoked(fr) == fr.pc = "done" /\ fr.op = "inject_wrapper" /\ "invoked" \in DOMAIN fr.result

\* the resources the wrapper holds for the parameters
Injected(fr) == IF fr.pc = "done" THEN fr.result.resources ELSE fr.resources

\* the wrapper of task t has gone on to the next parameter, or to the call of the
\* wrapped function, with value for the parameter it was at
PassesOn(t, value) ==
    /\ \/ Invoked(tasks'[t])
       \/ tasks'[t].pc = "inject" /\ tasks'[t].i = tasks[t].i + 1
    /\ Injected(tasks'[t]) = Append(tasks[t].resources, value)
    /\ Invoked(tasks'[t]) <=> tasks[t].i = Len(injected_resources(tasks[t].func))

\* neither a value nor a factory under the key in the chain of the node
Unresolved(n, key) == resource_lookup(n, key) = None /\ factory_lookup(n, key) = NoEntry

\* what the wrapper does before the first parameter and when it calls the function
C15_CallAndInvoke(t) ==
    /\ \A func \in Functions :
          InjectCallBy(t, func) =>
              IF current_context[t] = NoNode
              THEN tasks'[t] = Done("inject_wrapper", NoNode, [raises |-> "NoCurrentContext"])
              ELSE tasks'[t].pc = "inject" /\ tasks'[t].i = 1 /\ tasks'[t].resources = << >>
    /\ Invoked(tasks'[t]) =>
          /\ tasks[t].pc \in {"inject", "await_resource"}
          /\ tasks[t].node # NoNode
          /\ tasks'[t].result.invoked = tasks[t].func
          /\ Len(tasks'[t].result.resources) = Len(injected_resources(tasks[t].func))
          /\ \A i \in 1..Len(tasks'[t].result.resources) :
                tasks'[t].result.resources[i] # None

\* C15: a call of an inject-wrapped function calls the function only if the task
\* has a current context and require_resource succeeded on it for every
\* parameter; with no current context the call raises NoCurrentContext, with a
\* parameter whose resource is nowhere in the chain it raises ResourceNotFound,
\* both without calling the function; and each parameter receives exactly the
\* value get_resource gives on the current context
C15_InjectsWhatGetResourceYields ==
    [][\A t \in Tasks :
          tasks'[t] # tasks[t] =>
              /\ C15_CallAndInvoke(t)
              /\ \A factory_returns \in BOOLEAN :
                    InjectResolveBy(t, factory_returns) =>
                        LET key == injected_resources(tasks[t].func)[tasks[t].i]
                            value == get_resource_result(tasks[t].node, key,
                                        get_resource_branch(tasks[t].node, key),
                                        factory_returns)
                        IN  IF Unresolved(tasks[t].node, key)
                            THEN tasks'[t].result = [raises |-> "ResourceNotFound"]
                            ELSE "returns" \in DOMAIN value =>
                                    \/ PassesOn(t, value.returns)
                                    \/ tasks'[t].pc = "await_resource"
              /\ \A outcome \in Outcomes :
                    (InjectAwaitedBy(t, outcome) /\ Injected(tasks'[t]) # tasks[t].resources)
                        => PassesOn(t, tasks[t].resource)]_vars

\* C15, amended: the same, except that a parameter whose resource is awaitable
\* receives what awaiting it gives, the function not being called if awaiting it
\* raises or is cancelled, and that on a current context that is closed the call
\* raises the closed-node error, also where the resource is nowhere in the chain
C15_InjectsResolvedValue ==
    [][\A t \in Tasks :
          tasks'[t] # tasks[t] =>
              /\ C15_CallAndInvoke(t)
              /\ \A factory_returns \in BOOLEAN :
                    InjectResolveBy(t, factory_returns) =>
                        LET n == tasks[t].node
                            key == injected_resources(tasks[t].func)[tasks[t].i]
                            value == get_resource_result(n, key,
                                        get_resource_branch(n, key), factory_returns)
                        IN  IF closed[n]
                            THEN tasks'[t] = Done("inject_wrapper", n, ClosedError)
                            ELSE IF Unresolved(n, key)
                            THEN tasks'[t] = Done("inject_wrapper", n,
                                                  [raises |-> "ResourceNotFound"])
                            ELSE IF "raises" \in DOMAIN value
                            THEN tasks'[t] = Done("inject_wrapper", n, value)
                            ELSE IF isawaitable(value.returns)
                            THEN /\ tasks'[t].pc = "await_resource"
                                 /\ tasks'[t].resource = value.returns
                                 /\ tasks'[t].resources = tasks[t].resources
                            ELSE PassesOn(t, value.returns)
              /\ \A outcome \in Outcomes :
                    InjectAwaitedBy(t, outcome) =>
                        IF outcome = "returns"
                        THEN PassesOn(t, Awaited(tasks[t].resource))
                        ELSE ~Invoked(tasks'[t]) /\ "raises" \in DOMAIN tasks'[t].result]_vars

\* the function of two parameters has been called with what a factory made for the
\* current context and with what awaiting an awaitable resource gave
C15_Witness ==
    \E t \in Tasks :
        /\ Invoked(tasks[t])
        /\ tasks[t].result.invoked = "f2"
        /\ tasks[t].result.resources[1].kind = "made"
        /\ tasks[t].result.resources[1].ctx = tasks[t].node
        /\ tasks[t].result.resources[2] = Awaited(Awaitable)

(***************************************************************************)
(* The claims about context_teardown                                       *)
(***************************************************************************)
\* the calls of callback id in a history, as the exceptions they were passed
CallsOf(log, id) ==
    SelectSeq(log, LAMBDA e : e[1] = "call" /\ e[2] = id)

\* what holds of the wrapper however the first part ends: it returns only from
\* the await of the first part, a first part that does not yield registers
\* nothing, and a part after the yield begins only in a close of the node, which
\* passes it its exception
C16_FirstPartAndClose(t) ==
    /\ (tasks'[t].pc = "done" /\ tasks'[t].op = "context_teardown") => tasks[t].pc = "asend"
    /\ \A how \in FirstParts \ {"yields"} :
          FirstPartEndsBy(t, how) =>
              /\ teardown_callbacks' = teardown_callbacks
              /\ tasks'[t].result = IF how = "raises" THEN [raises |-> "Exc"]
                                    ELSE [returns |-> None]
    /\ \A n \in TeardownNodes :
          (tdlog'[n] # tdlog[n] /\ Last(tdlog'[n])[1] = "call" /\ tasks'[t].node = n) =>
              /\ tasks'[t].pc = "callback"
              /\ closed'[n]
              /\ Last(tdlog'[n])[3] = tasks'[t].exception

\* C16: the first part of a context_teardown generator called with node N runs
\* during the call of the wrapper; if it reaches the yield, exactly one teardown
\* callback is registered on N, and when N's close ends the part after the yield
\* of every registered generator has run exactly once, in that close, having
\* received the exception passed to close; if the first part raises or finishes
\* without a yield, nothing is registered
C16_RegisteredAndRunOnce ==
    [][\A t \in Tasks :
          tasks'[t] # tasks[t] =>
              /\ C16_FirstPartAndClose(t)
              /\ FirstPartEndsBy(t, "yields") =>
                    /\ teardown_callbacks'[tasks[t].node] # Deleted
                    /\ teardown_callbacks[tasks[t].node] # Deleted
                    /\ Len(teardown_callbacks'[tasks[t].node])
                          = Len(teardown_callbacks[tasks[t].node]) + 1
              /\ \A n \in TeardownNodes :
                    LeavesClose(t, n) =>
                        \A id \in 1..Len(teardown_callbacks[n]) :
                            CallsOf(tdlog'[n], id) = <<(<<"call", id, tasks[t].exception>>)>>]_vars

\* C16, amended: the same, except that a generator that reaches the yield when N
\* is closed registers nothing, the wrapper raising the closed-node error, and
\* that a close which a cancellation interrupts leaves the generators registered
\* before the cancelled one unrun; no part after a yield runs twice
C16_RegisteredIfOpenRunAtMostOnce ==
    [][\A t \in Tasks :
          tasks'[t] # tasks[t] =>
              /\ C16_FirstPartAndClose(t)
              /\ FirstPartEndsBy(t, "yields") =>
                    LET n == tasks[t].node
                    IN  IF closed[n]
                        THEN /\ teardown_callbacks' = teardown_callbacks
                             /\ tasks'[t] = Done("context_teardown", n, ClosedError)
                        ELSE /\ teardown_callbacks'[n] =
                                    Append(teardown_callbacks[n],
                                           [id |-> Len(teardown_callbacks[n]) + 1,
                                            pass_exception |-> TRUE])
                             /\ tasks'[t] = Done("context_teardown", n, [returns |-> None])
              /\ \A n \in TeardownNodes :
                    LeavesClose(t, n) =>
                        \A id \in 1..Len(teardown_callbacks[n]) :
                            /\ CallsOf(tdlog'[n], id)
                                  \in {<< >>, <<(<<"call", id, tasks[t].exception>>)>>}
                            /\ CallsOf(tdlog'[n], id) = << >> =>
                                  \E j \in 1..Len(tdlog'[n]) :
                                      /\ tdlog'[n][j][1] = "end"
                                      /\ tdlog'[n][j][2] > id
                                      /\ tdlog'[n][j][3] = "cancelled"]_vars

\* two generators were registered on C and close("Exc") has run the part after the
\* yield of each, passing it the exception
C16_Witness ==
    /\ teardown_callbacks["C"] = Deleted
    /\ Len(tdlog["C"]) = 4
    /\ tdlog["C"][1] = <<"call", 2, "Exc">>
    /\ tdlog["C"][3] = <<"call", 1, "Exc">>
    /\ \E t \in Tasks : tasks[t] = Done("context_teardown", "C", [returns |-> None])

(***************************************************************************)
(* The claim about a factory that raises                                   *)
(***************************************************************************)
\* the callback f has, in this step, been called with context n and raised
RaisesFor(f, n) == callsNext(f, n) = Append(calls(f, n), FALSE)

\* C17: when the callback of a factory raises while get_resource on node N
\* materializes it, get_resource raises that error, the registries and the
\* attributes of every node are as before the call, nothing being stored for the
\* factory and N holding no entry under the key, and get_resource for the same
\* key on N takes the factory again: the next call calls the callback once more
C17_FailureNotStored ==
    [][invocations' # invocations =>
          \A n \in Nodes, key \in Keys :
              LET branch == get_resource_branch(n, key)
              IN  ("generates" \in DOMAIN branch
                   /\ RaisesFor(branch.generates.value_or_factory, n)) =>
                      /\ get_resource_result(n, key, branch, FALSE)
                            = [raises |-> "FactoryError"]
                      /\ resources' = resources
                      /\ resource_factories' = resource_factories
                      /\ resource_factories_by_context_attr'
                            = resource_factories_by_context_attr
                      /\ attrs' = attrs
                      /\ resources'[n][key] = NoEntry
                      /\ get_resource_branch(n, key)' = branch]_vars

\* a callback raised for G and, called again for G, returned: G holds what the
\* second call made
C17_Witness ==
    \E m \in Nodes, k \in Keys :
        /\ resource_factories[m][k] # NoEntry
        /\ calls(resource_factories[m][k].value_or_factory, "G") = <<FALSE, TRUE>>
        /\ IsMade(resources["G"][k])
        /\ resources["G"][k].value_or_factory.seq = 2

(***************************************************************************)
(* The claim about a cancellation during close                             *)
(***************************************************************************)
\* C18: when a teardown callback, or what it returned, is cancelled during close,
\* close raises the cancellation at once, whether or not a callback raised
\* before, and not TeardownError; the callbacks not yet called are never called;
\* the node stays closed and every later close of it raises the closed-node error
C18_CancellationInterrupts ==
    /\ [](\A n \in TeardownNodes :
            Interrupted(tdlog[n]) =>
                /\ closed[n]
                /\ check_closed(n)
                /\ Last(tdlog[n])[1] = "end"
                /\ Last(tdlog[n])[3] = "cancelled"
                /\ InProgress(tdlog[n]) = {}
                /\ \A t \in Tasks : tasks[t].pc = "callback" => tasks[t].node # n)
    /\ [][\A n \in TeardownNodes :
            tasks' # tasks =>
                /\ Interrupted(tdlog[n]) =>
                      /\ tdlog'[n] = tdlog[n]
                      /\ teardown_callbacks'[n] = teardown_callbacks[n]
                      /\ \A t \in Tasks :
                            (tasks'[t] # tasks[t] /\ tasks'[t].node = n) =>
                                tasks'[t] = Done("close", n, ClosedError)
                /\ (~Interrupted(tdlog[n]) /\ Interrupted(tdlog'[n])) =>
                      \E t \in Tasks :
                          /\ tasks[t].pc = "callback"
                          /\ tasks[t].node = n
                          /\ tasks'[t] = Done("close", n, [raises |-> "CancelledError"])
                          /\ teardown_callbacks'[n] = teardown_callbacks[n]]_vars

\* of three callbacks of C the one registered last raised and the second was
\* cancelled: the first was never called, and a later close was rejected
C18_Witness ==
    /\ tdlog["C"] = << <<"call", 3, "None">>, <<"end", 3, "raises">>,
                       <<"call", 2, "None">>, <<"end", 2, "cancelled">> >>
    /\ Len(teardown_callbacks["C"]) = 3
    /\ \E t \in Tasks : tasks[t] = Done("close", "C", [raises |-> "CancelledError"])
    /\ \E t \in Tasks : tasks[t] = Done("close", "C", ClosedError)

(***************************************************************************)
(* The claims about the registrations                                      *)
(***************************************************************************)
\* a table or an attribute of some node differs after the step
RegistryChanged ==
    \/ resources' # resources
    \/ resource_factories' # resource_factories
    \/ resource_factories_by_context_attr' # resource_factories_by_context_attr
    \/ attrs' # attrs

\* table tbl of node n has, after the step, entry e under the name and each of the
\* types, where it had none, and is otherwise as before
StoredUnderEvery(tbl, n, types, name, e) ==
    \A k \in Keys :
        IF k[1] \in types /\ k[2] = name
        THEN tbl[n][k] = NoEntry /\ tbl'[n][k] = e
        ELSE tbl'[n][k] = tbl[n][k]

\* the step is one complete add_resource on n
C19_Added(n, value, name, context_attr, types) ==
    LET ts == resource_types(value, types)
    IN  /\ add_resource_check(n, value, name, context_attr, types) = "ok"
        /\ StoredUnderEvery(resources, n, ts, name,
                            ResourceContainer(value, ts, name, context_attr, FALSE))
        /\ \A m \in Nodes \ {n} : resources'[m] = resources[m] /\ attrs'[m] = attrs[m]
        /\ \A a \in Attrs :
              attrs'[n][a] = IF a = context_attr THEN value ELSE attrs[n][a]
        /\ resource_factories' = resource_factories
        /\ resource_factories_by_context_attr' = resource_factories_by_context_attr
        /\ tasks' = dispatch(n, ts, name)

\* the step is one complete add_resource_factory on n
C19_FactoryAdded(n, name, context_attr, types) ==
    LET e == ResourceContainer(Callback(n, types, name), types, name, context_attr, TRUE)
    IN  /\ add_resource_factory_check(n, types, name, context_attr) = "ok"
        /\ StoredUnderEvery(resource_factories, n, types, name, e)
        /\ \A m \in Nodes \ {n} :
              /\ resource_factories'[m] = resource_factories[m]
              /\ resource_factories_by_context_attr'[m]
                    = resource_factories_by_context_attr[m]
        /\ \A a \in Attrs :
              resource_factories_by_context_attr'[n][a] =
                  IF a = context_attr THEN e ELSE resource_factories_by_context_attr[n][a]
        /\ resources' = resources
        /\ attrs' = attrs
        /\ tasks' = dispatch(n, types, name)

\* C19: add_resource and add_resource_factory are all-or-nothing.  A call that
\* the checks reject (closed node, value None, malformed name, no types, an
\* attribute or a key already held) changes no table and no attribute and wakes
\* no listener; every change of a table or an attribute that is not a factory's
\* materialization is one accepted call, which stores its entry under each of its
\* types and dispatches one event, for those types and that name, on its node;
\* and a listener wakes only in such a step
C19_AllOrNothing ==
    [][/\ (RegistryChanged /\ invocations' = invocations) =>
              \E n \in Nodes, name \in Names, types \in SUBSET Types,
                 context_attr \in Attrs \cup {NoAttr} :
                    \/ \E value \in Values :
                          C19_Added(n, value, name, context_attr, types)
                    \/ C19_FactoryAdded(n, name, context_attr, types)
       /\ (\E t \in Tasks : tasks[t].pc = "wait_event" /\ tasks'[t].pc = "woken")
              => RegistryChanged
       /\ \A n \in RegisterNodes, nt \in RegisterNameTypes,
             context_attr \in Attrs \cup {NoAttr} :
                /\ \A value \in {Plain(1), None} :
                      (/\ add_resource_check(n, value, nt[1], context_attr, nt[2]) # "ok"
                       /\ add_resource(n, value, nt[1], context_attr, nt[2]))
                          => UNCHANGED vars
                /\ (/\ add_resource_factory_check(n, nt[2], nt[1], context_attr) # "ok"
                    /\ add_resource_factory(n, nt[2], nt[1], context_attr))
                          => UNCHANGED vars]_vars

\* C holds a value under two types and the attribute, G's waiting task was woken
\* by its one event, and the calls an attribute conflict and a held key reject
\* can be made
C19_Witness ==
    /\ resources["C"][<<"T1", "n">>] # NoEntry
    /\ resources["C"][<<"T1", "n">>] = resources["C"][<<"T2", "n">>]
    /\ attrs["C"]["a"] = Plain(1)
    /\ \E t \in Tasks : tasks[t].pc = "woken"
    /\ add_resource_check("C", Plain(1), "m", "a", {"T1"}) = "ResourceConflict"
    /\ add_resource_check("C", Plain(1), "n", NoAttr, {"T2"}) = "ResourceConflict"

\* C20: add_resource_factory on an open node with a context attribute that is
\* already an attribute of the node, as one that an earlier add_resource bound,
\* raises ResourceConflict; and add_resource with a context attribute for which
\* the node has a factory raises ResourceConflict
C20_AttrConflictBothWays ==
    \A n \in RegisterNodes, a \in Attrs, name \in Names, types \in SUBSET Types \ {{}} :
        ~closed[n] =>
            /\ attrs[n][a] # None
                  => add_resource_factory_check(n, types, name, a) = "ResourceConflict"
            /\ resource_factories_by_context_attr[n][a] # NoEntry
                  => \A value \in Values :
                        add_resource_check(n, value, name, a, types) = "ResourceConflict"

\* the rule each method does apply: add_resource_factory rejects the attribute
\* of another factory of the node, add_resource an attribute the node has
C20_Witness ==
    \E n \in RegisterNodes :
        /\ ~closed[n]
        /\ resource_factories_by_context_attr[n]["a"] # NoEntry
        /\ attrs[n]["a"] # None
        /\ add_resource_factory_check(n, {"T2"}, "n", "a") = "ResourceConflict"
        /\ add_resource_check(n, Plain(1), "m", "a", {"T1"}) = "ResourceConflict"

(***************************************************************************)
(* The waiter that was released                                            *)
(***************************************************************************)
\* task t, woken by an event its filter accepted, leaves request_resource in this step
Released(t) == tasks[t].pc = "woken" /\ tasks'[t].pc = "done"

\* a factory callback raised in this step
FactoryRaises ==
    \E x \in DOMAIN invocations' : callsNext(x[1], x[2]) = Append(calls(x[1], x[2]), FALSE)

\* C21 as stated: the re-resolution of a released waiter returns a value, whatever
\* other tasks did between the publish and the resumption (read for the factories
\* that return: a factory that raises is left aside)
C21_ReresolutionSucceeds ==
    [][\A t \in Tasks :
          Released(t) /\ ~FactoryRaises
              => /\ "returns" \in DOMAIN tasks'[t].result
                 /\ tasks'[t].result.returns # None]_vars

\* C21, amended: the re-resolution of a released waiter never ends with
\* ResourceNotFound.  It ends with the closed-node error exactly if the node of the
\* request has been closed by then, with the factory's error exactly if the node is
\* open and the factory it calls raises, and else it returns a value, which is
\* what get_resource yields on the node from then on; publishes, lookups and the
\* close of an ancestor in between do not change that.
C21_ReresolutionUnlessClosedOrFailed ==
    [][\A t \in Tasks :
          Released(t) =>
              LET n == tasks[t].node
                  key == tasks[t].key
                  r == tasks'[t].result
              IN  /\ r # [raises |-> "ResourceNotFound"]
                  /\ closed[n] <=> r = [raises |-> "RuntimeError"]
                  /\ (~closed[n] /\ FactoryRaises) <=> r = [raises |-> "FactoryError"]
                  /\ (~closed[n] /\ ~FactoryRaises) =>
                        /\ "returns" \in DOMAIN r
                        /\ r.returns # None
                        /\ get_resource_branch(n, key)' = r]_vars

\* a waiter on G was released and got a value although C, between G and the
\* publishing node, was closed
C21_Witness ==
    \E t \in Tasks :
        /\ tasks[t].pc = "done"
        /\ tasks[t].op = "request_resource"
        /\ tasks[t].node = "G"
        /\ tasks[t].waited
        /\ "returns" \in DOMAIN tasks[t].result
        /\ closed["C"]
        /\ resources["C"][tasks[t].key] = NoEntry

\* C22: a get_resource on a node replaces no entry the node holds: every entry
\* of the node before the call, under whatever key, is its entry after the call,
\* so that get_resource of that key returns the same value as before
C22_LookupKeepsEntries ==
    [][GetResource =>
          \A n \in Nodes, k \in Keys :
              resources[n][k] # NoEntry
                  => /\ resources'[n][k] = resources[n][k]
                     /\ get_resource_branch(n, k)' = get_resource_branch(n, k)]_vars

\* a node holds a published value under one key, and get_resource of another key
\* on it calls a factory that is registered under the type of the first as well
C22_Witness ==
    \E n \in Nodes, k1 \in Keys, k2 \in Keys :
        /\ k1 # k2
        /\ IsPlain(resources[n][k2])
        /\ "generates" \in DOMAIN get_resource_branch(n, k1)
        /\ k2[1] \in get_resource_branch(n, k1).generates.types
        /\ k2[2] = get_resource_branch(n, k1).generates.name

\* C23: a closed node is inert: no step changes the resources, the factories, the
\* factories by attribute or the attributes of a node that is closed, and none
\* calls a factory with a closed node as the requesting node
C23_ClosedNodeInert ==
    [][\A n \in Nodes :
          closed[n] =>
              /\ resources'[n] = resources[n]
              /\ resource_factories'[n] = resource_factories[n]
              /\ resource_factories_by_context_attr'[n] = resource_factories_by_context_attr[n]
              /\ attrs'[n] = attrs[n]
              /\ \A x \in DOMAIN invocations' :
                    x[2] = n => callsNext(x[1], n) = calls(x[1], n)]_vars

\* a closed node without the attribute whose chain has a factory for it: reading
\* the attribute reaches the factory
C23_Witness ==
    \E n \in Nodes, a \in Attrs :
        /\ closed[n]
        /\ attrs[n][a] = None
        /\ getattr_factory(n, a) # NoEntry
        /\ add_resource_check(n, Plain(1), "n", NoAttr, {"T1"}) = "RuntimeError"
        /\ get_resource_branch(n, <<"T1", "n">>) = [raises |-> "RuntimeError"]

\* the values get_resources(type) on n returns for the resources of this name
Contributed(n, type, name) ==
    {c.value_or_factory :
        c \in {d \in get_resources_local(n, type) \cup get_resources_parents(n, type) :
                  d.name = name}}

\* C24: where the chain of an open node holds values and no factory under a key,
\* get_resources of the type returns for the name the value of the nearest node
\* that holds the key, the value get_resource of the key returns
C24_NearestWinsInGetResources ==
    \A n \in LookupNodes, k \in Keys :
        /\ ~closed[n]
        /\ Holders(n, resource_factories, k) = {}
        /\ Holders(n, resources, k) # {}
        => /\ Contributed(n, k[1], k[2]) =
                  {resources[Nearest(Holders(n, resources, k))][k].value_or_factory}
           /\ get_resource_branch(n, k) =
                  [returns |-> resources[Nearest(Holders(n, resources, k))][k].value_or_factory]

\* R and C hold different values under a key, and get_resources of the type was
\* called on G, below both
C24_Witness ==
    \E t \in Tasks, k \in Keys :
        /\ IsPlain(resources["R"][k])
        /\ IsPlain(resources["C"][k])
        /\ resources["R"][k].value_or_factory # resources["C"][k].value_or_factory
        /\ resources["G"][k] = NoEntry
        /\ Holders("G", resource_factories, k) = {}
        /\ tasks[t].pc = "done"
        /\ tasks[t].op = "get_resources"
        /\ tasks[t].node = "G"
        /\ tasks[t].result = get_resources("G", k[1])

\* the tasks suspended in a close of n, awaiting a teardown callback
Closing(n) == {u \in Tasks : tasks[u].pc = "callback" /\ tasks[u].node = n}

\* the number of times callback id of a node was called, by its history
TimesCalled(log, id) ==
    Cardinality({j \in 1..Len(log) : log[j][1] = "call" /\ log[j][2] = id})

\* C25: a close() called on a node by one task while the close() of another task
\* is suspended awaiting a teardown callback of the node is rejected with the
\* closed-node error and calls no callback; at most one task is ever inside the
\* close of a node, and over the life of the node no teardown callback is called
\* more than once.
C25_TeardownAtMostOnce ==
    /\ [](\A n \in Nodes :
            /\ Cardinality(Closing(n)) <= 1
            /\ \A id \in IdsOf(tdlog[n], "call") : TimesCalled(tdlog[n], id) = 1)
    /\ [][tasks' # tasks =>
          \A t \in Tasks, n \in TeardownNodes, exception \in Exceptions :
              /\ Closing(n) \ {t} # {}
              /\ Free(t)
              /\ close(t, n, exception)
              => /\ tasks'[t] = Done("close", n, [raises |-> "RuntimeError"])
                 /\ tdlog' = tdlog
                 /\ teardown_callbacks' = teardown_callbacks
                 /\ closed' = closed]_vars

\* one task is suspended in the close of C, in the second of its callbacks, while
\* the close of the other task was rejected; every callback called so far was
\* called once
C25_Witness ==
    \E t \in Tasks, u \in Tasks :
        /\ t # u
        /\ tasks[u].pc = "callback"
        /\ tasks[u].node = "C"
        /\ tasks[u].i = 2
        /\ tasks[t] = Done("close", "C", [raises |-> "RuntimeError"])
        /\ Len(teardown_callbacks["C"]) >= 2

\* C26: where one task alone has created, entered, exited and closed contexts,
\* and is not inside __aexit__ or close, its current context is no context or
\* one that is still open
C26_CurrentContextIsOpen ==
    \A t \in Tasks :
        /\ Free(t)
        /\ \A u \in Tasks \ {t} : tasks[u] = Idle /\ entered[u] = << >>
        /\ current_context_get(t) # NoNode
        => ~closed[current_context_get(t)]

\* a task has entered C alone, has closed it in the body of the block with a
\* close() that returned, and has not left the block
C26_Witness ==
    \E t \in Tasks :
        /\ Len(entered[t]) = 1
        /\ entered[t][1].node = "C"
        /\ tasks[t] = Done("close", "C", [returns |-> None])
        /\ aexit[t] = Idle
        /\ current_context_get(t) = "C"
        /\ \A u \in Tasks \ {t} : entered[u] = << >> /\ tasks[u] = Idle

\* the step is one of close() on n in task t: its call, or the end of a callback
CloseStepOn(t, n) ==
    \/ \E exception \in Exceptions : CloseOnBy(t, n, exception)
    \/ /\ tasks[t].pc = "callback"
       /\ tasks[t].node = n
       /\ \E outcome \in Outcomes : CallbackEndsOnBy(t, outcome)

\* C27: a step of close() on n changes, of all nodes, the closed flag, the list of
\* teardown callbacks and their history of n alone; it changes no resource table,
\* no factory table and no attribute, n's included; and on every other open node
\* get_resource takes the branch it took before.  So an open node below a closed
\* one resolves through it by the order of C1, as if it were open, and its own
\* callbacks wait for its own close.
C27_CloseAffectsOnlyItsNode ==
    /\ [][tasks' # tasks =>
          \A t \in Tasks, n \in FrameNodes :
              CloseStepOn(t, n) =>
                  /\ \A m \in Nodes \ {n} :
                        /\ closed'[m] = closed[m]
                        /\ teardown_callbacks'[m] = teardown_callbacks[m]
                        /\ tdlog'[m] = tdlog[m]
                        /\ ~closed[m] =>
                              \A k \in Keys :
                                  get_resource_branch(m, k)' = get_resource_branch(m, k)
                  /\ resources' = resources
                  /\ resource_factories' = resource_factories
                  /\ resource_factories_by_context_attr' = resource_factories_by_context_attr
                  /\ attrs' = attrs]_vars
    /\ [](\A d \in Nodes, k \in Keys :
            ~closed[d] => get_resource_branch(d, k) = C1_Expected(d, k))

\* C was closed and its callbacks have run; G, below it and open, holds a callback
\* that was not called and resolves a key to the value C holds
C27_Witness ==
    \E k \in Keys :
        /\ closed["C"] /\ ~closed["G"]
        /\ teardown_callbacks["C"] = Deleted
        /\ tdlog["C"] # << >>
        /\ Len(teardown_callbacks["G"]) >= 1
        /\ tdlog["G"] = << >>
        /\ IsPlain(resources["C"][k])
        /\ get_resource_branch("G", k) = [returns |-> resources["C"][k].value_or_factory]
====
